---- MODULE Spec2Model ----
(***************************************************************************)
(* Run-Position-Encoding (RPE) decompression kernel of libgiddy            *)
(* (kernels/decompression/run_position_encoding.cuh) together with the     *)
(* warp-level primitives it uses (cuda/on_device/primitives/warp.cuh).     *)
(*                                                                         *)
(* A grid of blocks is launched, one block per anchored segment.  Every    *)
(* thread of a block resolves the segment's parameters redundantly; the    *)
(* warps of the block then decompress the segment at block stride.  A warp *)
(* executes in lockstep: one step of the model is one warp executing one   *)
(* iteration of the block-stride loop (all of its lanes that are still in  *)
(* the loop), or the slack handling that follows the loop.  Steps of       *)
(* different warps (of the same or of different blocks) interleave freely. *)
(*                                                                         *)
(* The warp width is scaled down (warp_size = 2^log_warp_size); array      *)
(* indices are 0-based as in the source.  Fixed-width integer types are    *)
(* modelled as unbounded naturals.                                         *)
(***************************************************************************)
EXTENDS Integers, Sequences, FiniteSets, TLC

(***************************************************************************)
(* Bounds of the model.                                                    *)
(***************************************************************************)
log_warp_size == 2
MaxLength == 9
MaxRuns == 3
MaxSegments == 3
MaxValue == 2
MaxLongExtra == 1
MaxShortExtra == 3
PositionOffsetBits == 5

(***************************************************************************)
(* Program constants.                                                      *)
(***************************************************************************)
sizeof_unsigned == 4

warp_size == 2 ^ log_warp_size
last_lane == warp_size - 1
Lanes == 0 .. (warp_size - 1)

UncompressedSizes == {1, 2, 4}
Values == 1 .. MaxValue
Unwritten == MaxValue + 1

(***************************************************************************)
(* An __shfl whose source lane does not take part in the call returns an   *)
(* undefined value; a read of run_data past the end of the array returns   *)
(* an undefined value.                                                     *)
(***************************************************************************)
UndefinedIndices == 0 .. MaxRuns
UndefinedValues == 0 .. MaxValue

VARIABLES
    UncompressedSize,       \* template parameter: sizeof the uncompressed type
    PositionsAreRelative,   \* template parameter
    uncompressed_length,    \* kernel arguments ...
    anchoring_period,
    run_data,
    run_start_positions,
    position_anchors,
    original,               \* the array that was compressed (ghost)
    run_starts,             \* the position each run starts at (ghost)
    elements_per_thread_write,  \* enum of the instantiation
    block_length,           \* launch configuration: threads per block
    block_params,           \* per block: the resolved segment parameters
    truncated_decompressed_length,   \* per block: local of the segment code
    decompressed,           \* the output buffer
    writes,                 \* log of every element written (ghost)
    first_possible_run_for_next_write,   \* per thread
    relative_write_position,             \* per thread: the loop variable
    pc,                                  \* per warp: "loop" or "done"
    call,                   \* the warp primitive called, its template and
                            \* scalar arguments
    active_lanes,           \* per calling warp: the lanes that have not
                            \* diverged or exited
    lane_value,             \* per calling warp and lane: the lane's argument
    lane_result,            \* per calling warp: what each lane got back
    f_evaluated_by,         \* per calling warp: the lanes that evaluated f
    counter,                \* the counter in memory
    atomic_adds,            \* log of the atomic adds on the counter (ghost)
    memory,                 \* the arrays a primitive is called on, by the
                            \* name of the pointer argument
    accesses                \* log of the element reads and writes (ghost)

inputs == << UncompressedSize, PositionsAreRelative, uncompressed_length,
             anchoring_period, run_data, run_start_positions,
             position_anchors, original, run_starts,
             elements_per_thread_write,
             block_length, block_params, truncated_decompressed_length >>
vars == << UncompressedSize, PositionsAreRelative, uncompressed_length,
           anchoring_period, run_data, run_start_positions,
           position_anchors, original, run_starts,
           elements_per_thread_write,
           block_length, block_params, truncated_decompressed_length,
           decompressed, writes,
           first_possible_run_for_next_write, relative_write_position, pc,
           call, active_lanes, lane_value, lane_result, f_evaluated_by,
           counter, atomic_adds, memory, accesses >>

\* the state of the decompression kernel
kernel == << inputs, decompressed, writes, first_possible_run_for_next_write,
             relative_write_position, pc >>

\* the state of the warp primitives called on their own
collective == << call, active_lanes, lane_value, lane_result, f_evaluated_by,
                 counter, atomic_adds, memory, accesses >>

\* the arrays of a primitive called on its own
global_memory == << memory, accesses >>

(***************************************************************************)
(* Arithmetic helpers.                                                     *)
(***************************************************************************)
div_rounding_up(a, b) == (a + b - 1) \div b

round_up_to_multiple(a, q) == div_rounding_up(a, q) * q

Min(a, b) == IF a < b THEN a ELSE b

log2_constexpr(n) == CHOOSE k \in 0 .. n : 2 ^ k <= n /\ n < 2 ^ (k + 1)

clear_lower_k_bits(x, k) == x - (x % (2 ^ k))

ElementsPerThreadWrite(size) ==
    IF size >= sizeof_unsigned THEN 1 ELSE sizeof_unsigned \div size

(***************************************************************************)
(* RPE encoding of an array given as runs: run r (0-based) starts at       *)
(* starts[r] and holds values[r].  position_anchors[k] is the index of the *)
(* run covering position k * period; a run's start position is stored     *)
(* either as is, or relative to the start of the segment it starts in.     *)
(***************************************************************************)
RunCovering(starts, p) ==
    CHOOSE r \in DOMAIN starts :
        /\ starts[r] <= p
        /\ \A s \in DOMAIN starts : starts[s] <= p => s <= r

EncodeAnchors(starts, length, period) ==
    [k \in 0 .. (div_rounding_up(length, period) - 1) |->
        RunCovering(starts, k * period)]

EncodeRunStartPositions(starts, period, relative) ==
    [r \in DOMAIN starts |->
        IF relative THEN starts[r] % period ELSE starts[r]]

\* the r-th smallest element (0-based) of a set of naturals
NthSmallest(S, r) == CHOOSE x \in S : Cardinality({y \in S : y < x}) = r

StartsOf(cuts) ==
    [r \in 0 .. Cardinality(cuts) |-> NthSmallest(cuts \cup {0}, r)]

(***************************************************************************)
(* Kernel arguments derived from the arrays.                               *)
(***************************************************************************)
num_anchors == Cardinality(DOMAIN position_anchors)
num_element_runs == Cardinality(DOMAIN run_data)

(***************************************************************************)
(* launch_config_resolution_params_t: the grid has one block per anchored  *)
(* segment; the block size is min(thread writes per segment, 2 warps), in  *)
(* quanta of a warp.                                                       *)
(***************************************************************************)
num_anchored_segments == div_rounding_up(uncompressed_length, anchoring_period)

num_thread_writes_per_segment ==
    div_rounding_up(anchoring_period, elements_per_thread_write)

\* mutant: the block is capped at one warp
fixed_threads_per_block_mutant == Min(num_thread_writes_per_segment, warp_size)

fixed_threads_per_block == Min(num_thread_writes_per_segment, 2 * warp_size)

threads_in_block == round_up_to_multiple(fixed_threads_per_block, warp_size)

Blocks == 0 .. (num_anchored_segments - 1)
ThreadsInBlock == 0 .. (block_length - 1)
Threads == Blocks \X ThreadsInBlock
WarpsInBlock == 0 .. (div_rounding_up(block_length, warp_size) - 1)
Warps == Blocks \X WarpsInBlock

\* mutant: the warps of a block share their threads
thread_index_in_block_mutant(w, lane) == lane

thread_index_in_block(w, lane) == w * warp_size + lane
LanesOf(w) == {l \in Lanes : thread_index_in_block(w, l) < block_length}

(***************************************************************************)
(* resolve_segment_decompression_params                                    *)
(***************************************************************************)
is_last_segment(block_index) == (block_index + 1 = num_anchors)

segment_start_position(block_index) == block_index * anchoring_period

\* mutant: the last segment is not told apart
segment_decompressed_length_mutant(block_index) == anchoring_period

segment_decompressed_length(block_index) ==
    IF is_last_segment(block_index)
    THEN uncompressed_length - segment_start_position(block_index)
    ELSE anchoring_period

\* mutant: a run starting exactly at the next segment's start is counted in
one_past_last_run_index_mutant(block_index) ==
    IF is_last_segment(block_index)
    THEN num_element_runs
    ELSE position_anchors[block_index + 1] +
         (IF run_start_positions[position_anchors[block_index + 1]]
                <= segment_start_position(block_index) + anchoring_period
          THEN 1 ELSE 0)

one_past_last_run_index(block_index) ==
    IF is_last_segment(block_index)
    THEN num_element_runs
    ELSE LET run_index_at_next_anchor == position_anchors[block_index + 1]
             next_uncompressed_segment_start_position ==
                 segment_start_position(block_index) + anchoring_period
         IN  run_index_at_next_anchor +
             (IF run_start_positions[run_index_at_next_anchor]
                    < next_uncompressed_segment_start_position
              THEN 1 ELSE 0)

resolve_segment_decompression_params(block_index) ==
    [ first_run_index |-> position_anchors[block_index],
      num_runs |-> one_past_last_run_index(block_index)
                       - position_anchors[block_index],
      uncompressed_start_position |-> segment_start_position(block_index),
      decompressed_length |-> segment_decompressed_length(block_index) ]

\* block_params of the threads of block g
params(g) == block_params[g]

(***************************************************************************)
(* Bit masks with one bit per lane, as the set of the lanes whose bit is   *)
(* set; the word is as wide as the warp.                                   *)
(***************************************************************************)
MaxOf(S) == CHOOSE x \in S : \A y \in S : y <= x

MinOf(S) == CHOOSE x \in S : \A y \in S : x <= y

\* the number of zero bits above the highest set bit
count_leading_zeros(mask) ==
    IF mask = {} THEN warp_size ELSE warp_size - 1 - MaxOf(mask)

\* the number of zero bits below the lowest set bit
count_trailing_zeros(mask) == IF mask = {} THEN warp_size ELSE MinOf(mask)

population_count(mask) == Cardinality(mask)

\* only the lanes taking part have their bit set
warp_ballot(predicate, callers) == {l \in callers : predicate[l]}

(***************************************************************************)
(* Warp primitives used by the decompression.  `callers' is the set of     *)
(* lanes of the warp that execute the call together; `value' and           *)
(* `predicate' map each caller to its argument.                            *)
(***************************************************************************)
all_satisfy(predicate, callers) == \A l \in callers : predicate[l]

\* mutant: the zeros are counted from the other end of the word
first_lane_satisfying_mutant(predicate, callers) ==
    count_leading_zeros(warp_ballot(predicate, callers))

first_lane_satisfying(predicate, callers) ==
    count_trailing_zeros(warp_ballot(predicate, callers))

\* __shfl: the value of the source lane when it takes part in the call,
\* an undefined value otherwise
get_from_lane(value, source_lane, callers, undefined) ==
    [l \in callers |->
        IF source_lane \in callers THEN value[source_lane] ELSE undefined[l]]

get_from_last_lane(value, callers, undefined) ==
    get_from_lane(value, last_lane, callers, undefined)

update_from_lane(value, source_lane, callers, undefined) ==
    get_from_lane(value, source_lane, callers, undefined)

\* the callers whose __shfl result is undefined
LanesReadingUndefined(source_lane, callers) ==
    IF source_lane \in callers THEN {} ELSE callers

(***************************************************************************)
(* decompress_a_segment_with_few_runs                                      *)
(***************************************************************************)
\* mutant: the length is not rounded down to whole thread writes
truncate_decompressed_length_mutant(decompressed_length) == decompressed_length

truncate_decompressed_length(decompressed_length) ==
    clear_lower_k_bits(decompressed_length,
                       log2_constexpr(elements_per_thread_write))

initial_relative_write_position(thread) == thread * elements_per_thread_write

next_relative_write_position(position) ==
    position + block_length * elements_per_thread_write

\* the conversion to position_offset_type, an unsigned type of
\* PositionOffsetBits bits
position_offset_type(value) == value % (2 ^ PositionOffsetBits)

\* the position compared with the run start positions
write_position_of(g, position) ==
    position + (IF PositionsAreRelative THEN 0
                ELSE params(g).uncompressed_start_position)

\* mutant: the output pointer is not advanced to the segment
output_index_mutant(g, write_position) == write_position

\* the kernel passes decompressed + uncompressed_start_position when
\* positions are relative: the slot of the output buffer a position names
output_index(g, write_position) ==
    write_position + (IF PositionsAreRelative
                      THEN params(g).uncompressed_start_position ELSE 0)

\* the kernel passes run_start_positions + first_run_index and
\* run_data + first_run_index
segment_run_start_position(g, run_index) ==
    run_start_positions[params(g).first_run_index + run_index]

run_data_in_bounds(g, run_index) ==
    (params(g).first_run_index + run_index) \in DOMAIN run_data

segment_run_data(g, run_index) ==
    run_data[params(g).first_run_index + run_index]

\* the run-iteration loop: advance while the run starts at or before the
\* position
RECURSIVE advance_run_index(_, _, _)
advance_run_index(g, run_index, position) ==
    IF /\ run_index < params(g).num_runs
       /\ ~(segment_run_start_position(g, run_index) > position)
    THEN advance_run_index(g, run_index + 1, position)
    ELSE run_index

\* run_index after the search for element e of a thread write: the search
\* for element 0 starts at first_possible + 1, the search for each further
\* element where the previous one stopped
RECURSIVE run_index_after_element(_, _, _, _)
run_index_after_element(g, first_possible, write_position, e) ==
    advance_run_index(g,
        IF e = 0 THEN first_possible + 1
        ELSE run_index_after_element(g, first_possible, write_position, e - 1),
        write_position + e)

run_covering_element(g, first_possible, write_position, e) ==
    run_index_after_element(g, first_possible, write_position, e) - 1

ThreadOf(g, w, lane) == <<g, thread_index_in_block(w, lane)>>

\* the lanes of warp w of block g that are still in the block-stride loop
LoopLanes(g, w) ==
    {l \in LanesOf(w) :
        relative_write_position[ThreadOf(g, w, l)]
            < truncated_decompressed_length[g]}

\* the lanes that execute the get_from_last_lane ending the round
BroadcastLanes(g, w) ==
    {l \in LoopLanes(g, w) :
        next_relative_write_position(relative_write_position[ThreadOf(g, w, l)])
          < params(g).decompressed_length}

\* run_covering_current_element, for each lane in the loop and each element
\* of its thread write
RunsFound(g, w) ==
    [x \in LoopLanes(g, w) \X (0 .. (elements_per_thread_write - 1)) |->
        run_covering_element(g,
            first_possible_run_for_next_write[ThreadOf(g, w, x[1])],
            write_position_of(g, relative_write_position[ThreadOf(g, w, x[1])]),
            x[2])]

\* the reads of run_data past the end of the array
UndefinedReads(g, found) ==
    {x \in DOMAIN found : ~run_data_in_bounds(g, found[x])}

RunValueRead(g, found, und_val, x) ==
    IF x \in DOMAIN und_val THEN und_val[x] ELSE segment_run_data(g, found[x])

WriteRecord(g, thread, position, is_packed, at, start_run, run) ==
    [pos |-> position, block |-> g, thread |-> thread, packed |-> is_packed,
     from |-> at, start_run |-> start_run, run |-> run]

\* the element stores of a round, each [pos, value]
RoundStores(g, w, found, und_val) ==
    {[pos |-> output_index(g,
                 write_position_of(g,
                     relative_write_position[ThreadOf(g, w, x[1])]) + x[2]),
      value |-> RunValueRead(g, found, und_val, x)] : x \in DOMAIN found}

RoundRecords(g, w, found) ==
    {WriteRecord(g, ThreadOf(g, w, x[1])[2],
         output_index(g,
             write_position_of(g,
                 relative_write_position[ThreadOf(g, w, x[1])]) + x[2]),
         TRUE, relative_write_position[ThreadOf(g, w, x[1])],
         first_possible_run_for_next_write[ThreadOf(g, w, x[1])],
         found[x]) : x \in DOMAIN found}

\* what each lane executing the broadcast adopts
RoundBroadcast(g, w, found, und_idx) ==
    get_from_last_lane(
        [l \in LoopLanes(g, w) |-> found[<<l, elements_per_thread_write - 1>>]],
        BroadcastLanes(g, w), und_idx)

\* the buffer after a set of element stores
Store(buffer, stores) ==
    [p \in DOMAIN buffer |->
        IF \E s \in stores : s.pos = p
        THEN (CHOOSE s \in stores : s.pos = p).value
        ELSE buffer[p]]

\* per-thread state after the lanes in DOMAIN updated got a new value
UpdateLanesOf(state, g, w, updated) ==
    [t \in DOMAIN state |->
        IF \E l \in DOMAIN updated : ThreadOf(g, w, l) = t
        THEN updated[CHOOSE l \in DOMAIN updated : ThreadOf(g, w, l) = t]
        ELSE state[t]]

(***************************************************************************)
(* One iteration of the block-stride loop by the lanes of a warp:          *)
(* locate_and_perform_next_write, then the loop's increment.               *)
(***************************************************************************)
MainRound(g, w) ==
    /\ pc[<<g, w>>] = "loop"
    /\ LoopLanes(g, w) # {}
    /\ LET found == RunsFound(g, w)
       IN  \E und_val \in [UndefinedReads(g, found) -> UndefinedValues],
              und_idx \in [LanesReadingUndefined(last_lane, BroadcastLanes(g, w))
                               -> UndefinedIndices] :
             /\ decompressed' =
                    Store(decompressed, RoundStores(g, w, found, und_val))
             /\ writes' = writes \cup RoundRecords(g, w, found)
             /\ first_possible_run_for_next_write' =
                    UpdateLanesOf(first_possible_run_for_next_write, g, w,
                                  RoundBroadcast(g, w, found, und_idx))
             /\ relative_write_position' =
                    UpdateLanesOf(relative_write_position, g, w,
                        [l \in LoopLanes(g, w) |->
                            position_offset_type(
                                next_relative_write_position(
                                    relative_write_position[
                                        ThreadOf(g, w, l)]))])
    /\ pc' = pc
    /\ UNCHANGED << inputs, collective >>

(***************************************************************************)
(* What follows the block-stride loop, executed by a warp once none of its *)
(* lanes is left in the loop: nothing for a single-element thread write;   *)
(* otherwise the slack elements, which do not fill a thread write, are     *)
(* written one element per lane.                                           *)
(***************************************************************************)
num_slack_elements(g) ==
    params(g).decompressed_length - truncated_decompressed_length[g]

HasSlack(g) == elements_per_thread_write > 1 /\ num_slack_elements(g) # 0

this_thread_wrote_last_element_so_far(g, thread) ==
    relative_write_position[thread] =
        (truncated_decompressed_length[g] - elements_per_thread_write)
          + elements_per_thread_write * block_length

NoLaneWroteLastElement(g, w) ==
    all_satisfy(
        [l \in LanesOf(w) |->
            ~this_thread_wrote_last_element_so_far(g, ThreadOf(g, w, l))],
        LanesOf(w))

\* the lanes of warp w that execute update_from_lane
UpdateLanes(g, w) ==
    IF truncated_decompressed_length[g] = 0 THEN {}
    ELSE IF NoLaneWroteLastElement(g, w) THEN {} ELSE LanesOf(w)

\* the lanes of warp w that reach the slack write, when there is slack
SlackLanes(g, w) ==
    IF truncated_decompressed_length[g] = 0
    THEN {l \in LanesOf(w) :
             ~(thread_index_in_block(w, l) >= num_slack_elements(g))}
    ELSE {l \in UpdateLanes(g, w) : ~(l >= num_slack_elements(g))}

lane_which_wrote_the_last_element_so_far(g, w) ==
    first_lane_satisfying(
        [l \in LanesOf(w) |->
            this_thread_wrote_last_element_so_far(g, ThreadOf(g, w, l))],
        LanesOf(w))

\* first_possible_run_for_next_write as assigned before the slack write
SlackFirstPossible(g, w, und_idx) ==
    IF truncated_decompressed_length[g] = 0
    THEN [l \in SlackLanes(g, w) |-> 0]
    ELSE update_from_lane(
             [l \in LanesOf(w) |->
                 first_possible_run_for_next_write[ThreadOf(g, w, l)]],
             lane_which_wrote_the_last_element_so_far(g, w),
             UpdateLanes(g, w), und_idx)

slack_write_position(g, lane) ==
    truncated_decompressed_length[g] + lane
      + (IF PositionsAreRelative THEN 0
         ELSE params(g).uncompressed_start_position)

SlackRunsFound(g, w, first_possible) ==
    [l \in SlackLanes(g, w) |->
        advance_run_index(g, first_possible[l] + 1,
                          slack_write_position(g, l)) - 1]

SlackStores(g, w, found, und_val) ==
    {[pos |-> output_index(g, slack_write_position(g, l)),
      value |-> RunValueRead(g, found, und_val, l)] : l \in DOMAIN found}

SlackRecords(g, w, first_possible, found) ==
    {WriteRecord(g, ThreadOf(g, w, l)[2],
         output_index(g, slack_write_position(g, l)),
         FALSE, relative_write_position[ThreadOf(g, w, l)],
         first_possible[l], found[l]) : l \in DOMAIN found}

HandleSlack(g, w) ==
    /\ pc[<<g, w>>] = "loop"
    /\ LoopLanes(g, w) = {}
    /\ pc' = [pc EXCEPT ![<<g, w>>] = "done"]
    /\ UNCHANGED << inputs, relative_write_position, collective >>
    /\ IF HasSlack(g)
       THEN \E und_idx \in
                  [LanesReadingUndefined(
                       lane_which_wrote_the_last_element_so_far(g, w),
                       UpdateLanes(g, w)) -> UndefinedIndices] :
              LET first_possible == SlackFirstPossible(g, w, und_idx)
                  found == SlackRunsFound(g, w, first_possible)
              IN  \E und_val \in [UndefinedReads(g, found) -> UndefinedValues] :
                    /\ first_possible_run_for_next_write' =
                           UpdateLanesOf(first_possible_run_for_next_write,
                                         g, w, first_possible)
                    /\ decompressed' =
                           Store(decompressed,
                                 SlackStores(g, w, found, und_val))
                    /\ writes' = writes \cup
                           SlackRecords(g, w, first_possible, found)
       ELSE UNCHANGED << decompressed, writes,
                         first_possible_run_for_next_write >>

\* no warp primitive is called on its own
NoCollectiveCall ==
    /\ call = [primitive |-> "none"]
    /\ active_lanes = << >>
    /\ lane_value = << >>
    /\ lane_result = << >>
    /\ f_evaluated_by = << >>
    /\ counter = 0
    /\ atomic_adds = {}
    /\ memory = << >>
    /\ accesses = {}

(***************************************************************************)
(* The state at kernel launch, for an array of the given length compressed *)
(* with the given anchoring period.                                        *)
(***************************************************************************)
RECURSIVE CutSets(_, _)
CutSets(length, k) ==
    IF k = 0 THEN {{}}
    ELSE CutSets(length, k - 1) \cup
         {S \cup {x} : S \in CutSets(length, k - 1), x \in 1 .. (length - 1)}

\* the values of num consecutive runs: a run is a maximal range of equal
\* values, so neighbouring runs differ
RunValues(num) ==
    {v \in [0 .. (num - 1) -> Values] :
        \A r \in 1 .. (num - 1) : v[r] # v[r - 1]}

Launch(length, period, size, relative) ==
    \E cuts \in CutSets(length, MaxRuns - 1) :
      \E values \in RunValues(Cardinality(cuts) + 1) :
        LET starts == StartsOf(cuts)
        IN  /\ UncompressedSize = size
            /\ PositionsAreRelative = relative
            /\ uncompressed_length = length
            /\ anchoring_period = period
            /\ run_data = values
            /\ run_start_positions =
                   EncodeRunStartPositions(starts, period, relative)
            /\ position_anchors = EncodeAnchors(starts, length, period)
            /\ original =
                   [p \in 0 .. (length - 1) |-> values[RunCovering(starts, p)]]
            /\ run_starts = starts
            /\ elements_per_thread_write = ElementsPerThreadWrite(size)
            /\ block_length = threads_in_block
            /\ block_params =
                   [g \in Blocks |-> resolve_segment_decompression_params(g)]
            /\ truncated_decompressed_length =
                   [g \in Blocks |-> truncate_decompressed_length(
                                         block_params[g].decompressed_length)]
            /\ decompressed = [p \in 0 .. (length - 1) |-> Unwritten]
            /\ writes = {}
            /\ first_possible_run_for_next_write = [t \in Threads |-> 0]
            /\ relative_write_position =
                   [t \in Threads |-> initial_relative_write_position(t[2])]
            /\ pc = [w \in Warps |-> "loop"]
            /\ NoCollectiveCall

Init ==
    \E length \in 1 .. MaxLength, period \in 1 .. MaxLength :
      /\ div_rounding_up(length, period) <= MaxSegments
      /\ \E size \in UncompressedSizes, relative \in BOOLEAN :
           Launch(length, period, size, relative)

Next == \E gw \in Warps : MainRound(gw[1], gw[2]) \/ HandleSlack(gw[1], gw[2])

Spec == Init /\ [][Next]_vars

AllDone == \A gw \in Warps : pc[gw] = "done"

BlockDone(g) == \A w \in WarpsInBlock : pc[<<g, w>>] = "done"

WritesOfBlock(g) == {r \in writes : r.block = g}

SegmentRange(g) ==
    (g * anchoring_period) ..
        (Min((g + 1) * anchoring_period, uncompressed_length) - 1)

(***************************************************************************)
(* C3. Exact coverage: a block writes only positions of its own segment;   *)
(* once it is done it has written every position of the segment, in as     *)
(* many element writes as the segment is long; once all blocks are done    *)
(* the written positions are exactly 0 .. uncompressed_length - 1.         *)
(***************************************************************************)
ExactCoverage ==
    /\ \A g \in Blocks :
         /\ \A r \in WritesOfBlock(g) :
              /\ r.pos >= block_params[g].uncompressed_start_position
              /\ r.pos < block_params[g].uncompressed_start_position
                           + block_params[g].decompressed_length
         /\ BlockDone(g) =>
              /\ {r.pos : r \in WritesOfBlock(g)} = SegmentRange(g)
              /\ Cardinality(WritesOfBlock(g))
                     = block_params[g].decompressed_length
    /\ AllDone =>
         {r.pos : r \in writes} = 0 .. (uncompressed_length - 1)

ExactCoverageWitness ==
    /\ AllDone
    /\ num_anchors >= 2
    /\ elements_per_thread_write > 1
    /\ \E r \in writes : r.packed
    /\ \E r \in writes : ~r.packed /\ r.block + 1 < num_anchors
    /\ uncompressed_length % anchoring_period # 0

(***************************************************************************)
(* C4. Write-once: no two element writes (packed or slack, by whichever    *)
(* lanes of whichever warps and blocks) go to the same output slot, and    *)
(* once all blocks are done every slot has been written exactly once.      *)
(***************************************************************************)
WriteOnce ==
    /\ \A a \in writes : \A b \in writes : a.pos = b.pos => a = b
    /\ AllDone =>
         \A p \in 0 .. (uncompressed_length - 1) :
             Cardinality({r \in writes : r.pos = p}) = 1

WriteOnceWitness ==
    /\ AllDone
    /\ PositionsAreRelative
    /\ \E a \in writes : \E b \in writes :
         /\ a.block = b.block
         /\ a.thread < warp_size /\ b.thread >= warp_size
    /\ \E a \in writes : \E b \in writes : a.block # b.block

(***************************************************************************)
(* C5. The resolved parameters of block g: the segment starts at           *)
(* g * anchoring_period and is anchoring_period long, except the last one, *)
(* which ends at uncompressed_length; the lengths add up to                *)
(* uncompressed_length.                                                    *)
(***************************************************************************)
RECURSIVE SumOfSegmentLengths(_)
SumOfSegmentLengths(n) ==
    IF n = 0 THEN 0
    ELSE SumOfSegmentLengths(n - 1) + block_params[n - 1].decompressed_length

SegmentParamsResolved ==
    /\ \A g \in Blocks :
         /\ block_params[g].uncompressed_start_position = g * anchoring_period
         /\ block_params[g].decompressed_length =
               IF g + 1 = num_anchors
               THEN uncompressed_length - g * anchoring_period
               ELSE anchoring_period
    /\ SumOfSegmentLengths(num_anchors) = uncompressed_length

SegmentParamsWitness ==
    /\ num_anchors = MaxSegments
    /\ block_params[num_anchors - 1].decompressed_length < anchoring_period
    /\ block_params[num_anchors - 1].decompressed_length > 0

(***************************************************************************)
(* C6. With absolute positions the runs resolved for a segment are exactly *)
(* the runs whose coverage meets the segment: the run at the next anchor   *)
(* is counted iff it starts before the next segment's start.               *)
(***************************************************************************)
RunEnd(r) ==
    IF (r + 1) \in DOMAIN run_starts THEN run_starts[r + 1]
    ELSE uncompressed_length

RunsMeetingSegment(g) ==
    {r \in DOMAIN run_starts :
        /\ run_starts[r] < Min((g + 1) * anchoring_period, uncompressed_length)
        /\ RunEnd(r) > g * anchoring_period}

ResolvedRuns(g) ==
    {block_params[g].first_run_index + i :
        i \in 0 .. (block_params[g].num_runs - 1)}

RunRangeAbsolute ==
    ~PositionsAreRelative =>
        \A g \in Blocks :
            /\ ResolvedRuns(g) = RunsMeetingSegment(g)
            /\ (g + 1 < num_anchors) =>
                 /\ block_params[g + 1].first_run_index = position_anchors[g + 1]
                 /\ (position_anchors[g + 1] \in ResolvedRuns(g))
                      <=> (run_starts[position_anchors[g + 1]]
                             < (g + 1) * anchoring_period)

\* a run starts one position before a segment boundary: it is the last run of
\* the segment and the first run of the next one
RunRangeAbsoluteWitness ==
    /\ ~PositionsAreRelative
    /\ \E g \in Blocks :
         /\ g + 1 < num_anchors
         /\ run_start_positions[position_anchors[g + 1]]
                = (g + 1) * anchoring_period - 1
         /\ position_anchors[g + 1] \in ResolvedRuns(g)
         /\ block_params[g + 1].first_run_index = position_anchors[g + 1]
         /\ block_params[g].num_runs >= 2

(***************************************************************************)
(* C1. Round trip with absolute positions: once the kernel is done the     *)
(* output equals the array that was encoded.                               *)
(***************************************************************************)
RoundTripAbsolute ==
    (~PositionsAreRelative /\ AllDone) => decompressed = original

(***************************************************************************)
(* C2. Round trip with segment-relative positions: once the kernel is done *)
(* the output equals the array that was encoded, also when a run starts    *)
(* exactly at the start of a segment other than the first.                 *)
(***************************************************************************)
RoundTripRelative ==
    (PositionsAreRelative /\ AllDone) => decompressed = original

\* the index, among the runs of its block's segment, of the run covering the
\* position a write went to
CoveringLocalIndex(r) ==
    RunCovering(run_starts, r.pos) - block_params[r.block].first_run_index

(***************************************************************************)
(* C8. Lower-bound validity: every search, of a main-loop write or of a    *)
(* slack write, started from a first_possible_run_for_next_write that is   *)
(* at most the segment-local index of the run covering the position.       *)
(***************************************************************************)
LowerBoundValid ==
    \A r \in writes : r.start_run <= CoveringLocalIndex(r)

SlackPositions(g) ==
    {block_params[g].uncompressed_start_position + i :
        i \in truncated_decompressed_length[g] ..
                  (block_params[g].decompressed_length - 1)}

SlackWritesOfBlock(g) == {r \in WritesOfBlock(g) : ~r.packed}

\* the warps of block g that may write slack: the one holding the thread that
\* wrote the last full thread write, or, without any, the one of thread 0
SlackWarps(g) ==
    IF truncated_decompressed_length[g] = 0 THEN {0}
    ELSE {r.thread \div warp_size :
            r \in {q \in WritesOfBlock(g) :
                     /\ q.packed
                     /\ q.pos = block_params[g].uncompressed_start_position
                                  + truncated_decompressed_length[g] - 1}}

(***************************************************************************)
(* C9. Slack handling: when single elements are left over after the last   *)
(* full thread write of a segment, each of them is written exactly once,   *)
(* with the value of its covering run, by a single-element write of a lane *)
(* with index below num_slack_elements in the warp that wrote the last     *)
(* full thread write (or of the first threads of the block when there is   *)
(* none); no other warp writes slack, and nothing but slack is written by  *)
(* single-element writes.                                                  *)
(***************************************************************************)
SlackHandled ==
    \A g \in Blocks :
        /\ \A r \in SlackWritesOfBlock(g) :
              /\ HasSlack(g)
              /\ r.pos \in SlackPositions(g)
              /\ (r.thread % warp_size) < num_slack_elements(g)
              /\ (r.thread \div warp_size) \in SlackWarps(g)
              /\ decompressed[r.pos] = original[r.pos]
        /\ (BlockDone(g) /\ elements_per_thread_write > 1) =>
              \A p \in SlackPositions(g) :
                  Cardinality({r \in SlackWritesOfBlock(g) : r.pos = p}) = 1

(***************************************************************************)
(* Arrays of one segment long enough for a thread to go through the        *)
(* block-stride loop three times.                                          *)
(***************************************************************************)
LongLengths ==
    (2 * (2 * warp_size) + 1) .. (2 * (2 * warp_size) + MaxLongExtra)

InitLong ==
    \E length \in LongLengths, relative \in BOOLEAN :
        Launch(length, length, sizeof_unsigned, relative)

SpecLong == InitLong /\ [][Next]_vars

(***************************************************************************)
(* C7. first_possible_run_for_next_write is 0 at first in every lane, and  *)
(* no step (the adoption ending a round of the loop, the update before the *)
(* slack write) ever decreases it in any lane.                             *)
(***************************************************************************)
FirstPossibleRunNeverDecreases ==
    /\ \A t \in Threads : first_possible_run_for_next_write[t] = 0
    /\ [][\A t \in Threads :
             first_possible_run_for_next_write'[t]
                 >= first_possible_run_for_next_write[t]]_vars

\* what a warp's next step depends on and what it would store: its position
\* in the code, its lanes' registers, and the element stores of its next
\* round of the loop
WarpView(gw) ==
    [at |-> pc[gw],
     first_possible |->
        [l \in LanesOf(gw[2]) |->
            first_possible_run_for_next_write[ThreadOf(gw[1], gw[2], l)]],
     position |->
        [l \in LanesOf(gw[2]) |->
            relative_write_position[ThreadOf(gw[1], gw[2], l)]],
     stores |->
        RoundStores(gw[1], gw[2], RunsFound(gw[1], gw[2]),
            [x \in UndefinedReads(gw[1], RunsFound(gw[1], gw[2]))
                |-> Unwritten])]

\* every thread goes through the block-stride loop at most once
SingleRound ==
    \A g \in Blocks :
        block_length * elements_per_thread_write
            >= block_params[g].decompressed_length

\* the output of the warps run one after another, when every thread goes
\* through the loop at most once: each position's search starts from 0
SequentialOutput ==
    [p \in 0 .. (uncompressed_length - 1) |->
        LET g == p \div anchoring_period
        IN  segment_run_data(g,
                advance_run_index(g, 1,
                    write_position_of(g,
                        p - block_params[g].uncompressed_start_position))
                  - 1)]

(***************************************************************************)
(* C10. Lane-group independence: a step of one warp leaves every other     *)
(* warp's registers, code position and next stores as they were, writes    *)
(* only slots no warp wrote before, and changes no slot but the ones it    *)
(* writes; every written slot holds what its one writer stored, and when   *)
(* each thread goes through the loop at most once the final output is the  *)
(* one of the sequential run whatever the interleaving was.                *)
(***************************************************************************)
LaneGroupsIndependent ==
    /\ [](\A r \in writes :
             run_data_in_bounds(r.block, r.run) =>
                 decompressed[r.pos] = segment_run_data(r.block, r.run))
    /\ []((AllDone /\ SingleRound) => decompressed = SequentialOutput)
    /\ [][\E gw \in Warps :
             /\ \A other \in Warps \ {gw} : WarpView(other)' = WarpView(other)
             /\ \A r \in writes' \ writes :
                  /\ r.block = gw[1]
                  /\ r.thread \div warp_size = gw[2]
                  /\ \A q \in writes : q.pos # r.pos
             /\ \A q \in writes : decompressed'[q.pos] = decompressed[q.pos]
             /\ \A p \in DOMAIN decompressed :
                  decompressed'[p] # decompressed[p] =>
                      \E r \in writes' \ writes : r.pos = p]_vars

\* warps of two blocks, two of them of one block, have written and are all
\* still running
LaneGroupsIndependentWitness ==
    \E a \in writes : \E b \in writes : \E c \in writes :
        /\ a.block = b.block
        /\ a.thread \div warp_size # b.thread \div warp_size
        /\ c.block # a.block
        /\ pc[<<a.block, a.thread \div warp_size>>] = "loop"
        /\ pc[<<b.block, b.thread \div warp_size>>] = "loop"
        /\ pc[<<c.block, c.thread \div warp_size>>] = "loop"

\* the least number of parts of the given size that hold `amount'
Ceiling(amount, size) ==
    CHOOSE n \in 0 .. amount :
        /\ n * size >= amount
        /\ (n = 0 \/ (n - 1) * size < amount)

\* the least multiple of quantum that is at least n
Quantized(n, quantum) ==
    CHOOSE m \in n .. (n + quantum - 1) : m % quantum = 0

(***************************************************************************)
(* C28. The launch configuration: the grid has                             *)
(* ceil(uncompressed_length / anchoring_period) blocks, a block is asked   *)
(* to have min(ceil(anchoring_period / elements_per_thread_write),         *)
(* 2 * warp_size) threads and has that number brought to the quantum of    *)
(* warp_size, and there is exactly one block for each anchored segment.    *)
(***************************************************************************)
LaunchConfigurationResolved ==
    (uncompressed_length >= 1) =>
        /\ DOMAIN block_params =
              0 .. (Ceiling(uncompressed_length, anchoring_period) - 1)
        /\ block_length =
              Quantized(Min(Ceiling(anchoring_period, elements_per_thread_write),
                            2 * warp_size),
                        warp_size)
        /\ DOMAIN pc = (DOMAIN block_params) \X (0 .. (block_length \div warp_size - 1))
        /\ Cardinality(DOMAIN block_params) = num_anchors
        /\ \A g \in DOMAIN block_params :
              block_params[g].uncompressed_start_position = g * anchoring_period

\* a launch with more than one block, the blocks of two warps, more
\* threads than were requested
LaunchConfigurationWitness ==
    /\ Cardinality(DOMAIN block_params) > 1
    /\ block_length = 2 * warp_size
    /\ num_thread_writes_per_segment < block_length

\* the thread writes that the step adds to the log for thread `thread' of
\* block g
NewThreadWrites(g, thread) ==
    {r \in writes' \ writes : r.block = g /\ r.thread = thread /\ r.packed}

\* the step is a round of the loop of warp w of block g
RoundOf(g, w) ==
    \E l \in Lanes : NewThreadWrites(g, thread_index_in_block(w, l)) # {}

\* the last lane of warp w of block g writes in the step
LastLaneWrites(g, w) ==
    NewThreadWrites(g, thread_index_in_block(w, last_lane)) # {}

\* the run the last lane of the warp finds in the step for the last element
\* of its thread write
RunFoundByLastLane(g, w) ==
    LET written == NewThreadWrites(g, thread_index_in_block(w, last_lane))
    IN  (CHOOSE r \in written : \A q \in written : q.pos <= r.pos).run

(***************************************************************************)
(* C30. At the end of a round every lane that executes the broadcast       *)
(* adopts, as first_possible_run_for_next_write, the segment-local index   *)
(* of the run the last lane of its warp found in this round for the last   *)
(* element of its thread write; the last lane has written in every round   *)
(* in which a lane of its warp executes the broadcast.                     *)
(***************************************************************************)
BroadcastAdoptsRunOfLastLane ==
    [][\A gw \in Warps :
          RoundOf(gw[1], gw[2]) =>
              \A l \in BroadcastLanes(gw[1], gw[2]) :
                  /\ LastLaneWrites(gw[1], gw[2])
                  /\ first_possible_run_for_next_write'[ThreadOf(gw[1], gw[2], l)]
                        = RunFoundByLastLane(gw[1], gw[2])]_vars

(***************************************************************************)
(* C31. Whenever lanes of a warp execute get_from_last_lane at the end of  *)
(* a round, or update_from_lane before the slack, the lane they read from  *)
(* executes the same call: it has not left the call because its own next   *)
(* write position is at or past decompressed_length.                       *)
(***************************************************************************)
SourceLaneParticipates ==
    \A gw \in Warps :
        (pc[gw] = "loop") =>
            IF LoopLanes(gw[1], gw[2]) # {}
            THEN BroadcastLanes(gw[1], gw[2]) # {} =>
                    last_lane \in BroadcastLanes(gw[1], gw[2])
            ELSE (HasSlack(gw[1]) /\ UpdateLanes(gw[1], gw[2]) # {}) =>
                    lane_which_wrote_the_last_element_so_far(gw[1], gw[2])
                        \in UpdateLanes(gw[1], gw[2])

\* write_position + e of the element a thread write stored in slot r.pos
ComparedPosition(r) ==
    r.pos - (IF PositionsAreRelative
             THEN block_params[r.block].uncompressed_start_position ELSE 0)

\* the runs of the segment of block g that are the first one or start at or
\* before the position
RunsStartingAtOrBefore(g, position) ==
    {k \in 0 .. (block_params[g].num_runs - 1) :
        k = 0 \/ segment_run_start_position(g, k) <= position}

(***************************************************************************)
(* C32. For each element of a thread write of the loop, the run found is   *)
(* the largest segment-local index r below num_runs with r = 0 or          *)
(* run_start_positions[r] at most the position of the element, and the     *)
(* value stored for the element is run_data[r]; also when the elements of  *)
(* one thread write are covered by different runs.                         *)
(***************************************************************************)
SearchFindsLastRunStartingBefore ==
    \A r \in writes :
        r.packed =>
            /\ r.run \in RunsStartingAtOrBefore(r.block, ComparedPosition(r))
            /\ \A k \in RunsStartingAtOrBefore(r.block, ComparedPosition(r)) :
                   k <= r.run
            /\ decompressed[r.pos] = segment_run_data(r.block, r.run)

(***************************************************************************)
(* Arrays of one segment, a few elements longer than the block, so that    *)
(* some but not all lanes of the first warp go through the block-stride    *)
(* loop a second time.                                                     *)
(***************************************************************************)
ShortLengths ==
    (2 * warp_size + 2) .. (2 * warp_size + MaxShortExtra)

InitShort ==
    \E length \in ShortLengths, relative \in BOOLEAN :
        Launch(length, length, sizeof_unsigned, relative)

SpecShort == InitShort /\ [][Next]_vars

(***************************************************************************)
(* C33  Group agreement on the search state: at the start of every round   *)
(* of the block-stride loop all lanes of a warp that write in that round   *)
(* hold the same first_possible_run_for_next_write, and all lanes of a     *)
(* warp that perform a slack write searched from the same value.           *)
(***************************************************************************)
WarpOfThread(thread) == thread \div warp_size

LanesWritingAgree(g, w) ==
    \A l, m \in LoopLanes(g, w) :
        first_possible_run_for_next_write[ThreadOf(g, w, l)]
            = first_possible_run_for_next_write[ThreadOf(g, w, m)]

SlackWritesAgree ==
    \A r, s \in writes :
        (/\ ~r.packed
         /\ ~s.packed
         /\ r.block = s.block
         /\ WarpOfThread(r.thread) = WarpOfThread(s.thread))
            => r.start_run = s.start_run

GroupAgreesOnSearchState ==
    /\ \A gw \in Warps : (pc[gw] = "loop") => LanesWritingAgree(gw[1], gw[2])
    /\ SlackWritesAgree

(***************************************************************************)
(* C34  Run-table bounds: every read of run_start_positions uses a         *)
(* segment-local index in [1, num_runs), and every read of run_data uses a *)
(* segment-local index in [0, num_runs).                                   *)
(***************************************************************************)
\* the indices at which a search that starts from first_possible and ends
\* with run_covering reads run_start_positions: run_index goes from
\* first_possible + 1 to run_covering + 1, and is read while below num_runs
run_start_positions_read(g, first_possible, run_covering) ==
    {run_index \in (first_possible + 1) .. (run_covering + 1) :
        run_index < params(g).num_runs}

RunStartPositionsReadInBounds ==
    \A r \in writes :
        \A run_index \in run_start_positions_read(r.block, r.start_run, r.run) :
            1 <= run_index /\ run_index < params(r.block).num_runs

RunDataReadInBounds ==
    \A r \in writes : 0 <= r.run /\ r.run < params(r.block).num_runs

RunTableReadsInBounds ==
    RunStartPositionsReadInBounds /\ RunDataReadInBounds

(***************************************************************************)
(* An array of one segment whose length is within a block's stride of the  *)
(* number of values of position_offset_type: the last warp of the block    *)
(* leaves the loop just below that number.                                 *)
(***************************************************************************)
LengthNearLimitOfPositions == 2 ^ PositionOffsetBits - warp_size

InitNearLimit ==
    \E relative \in BOOLEAN :
        Launch(LengthNearLimitOfPositions, LengthNearLimitOfPositions,
               sizeof_unsigned, relative)

SpecNearLimit == InitNearLimit /\ [][Next]_vars

(***************************************************************************)
(* C36  Position arithmetic: for every decompressed_length that            *)
(* position_offset_type represents, those within block_length *            *)
(* elements_per_thread_write of its number of values included, the         *)
(* positions a thread visits strictly increase, each being the one before  *)
(* plus block_length * elements_per_thread_write without wrapping around,  *)
(* and the loop of every thread ends.                                      *)
(***************************************************************************)
PositionAdvances(thread) ==
    relative_write_position'[thread] # relative_write_position[thread] =>
        /\ relative_write_position'[thread] > relative_write_position[thread]
        /\ relative_write_position'[thread] =
               relative_write_position[thread]
                 + block_length * elements_per_thread_write

PositionsIncreaseWithoutWrapping ==
    [][\A thread \in Threads : PositionAdvances(thread)]_vars

(***************************************************************************)
(* The warp primitives called on their own.  A call is made by the active  *)
(* lanes of a warp together; one step of the model is one warp executing   *)
(* one call, in lockstep, from its arguments to its return values.         *)
(***************************************************************************)
NumCallingWarps == 2

ReductionOps == {"plus", "maximum"}

\* ReductionOp::operator() and the accumulator's effect on its first argument
ApplyOp(op, a, b) ==
    IF op = "plus" THEN a + b ELSE IF a < b THEN b ELSE a

neutral_value(op) == 0

half_warp_size == warp_size \div 2

\* the kernel is not launched
KernelNotLaunched ==
    /\ UncompressedSize = sizeof_unsigned
    /\ PositionsAreRelative = FALSE
    /\ uncompressed_length = 0
    /\ anchoring_period = 1
    /\ run_data = << >>
    /\ run_start_positions = << >>
    /\ position_anchors = << >>
    /\ original = << >>
    /\ run_starts = << >>
    /\ elements_per_thread_write = 1
    /\ block_length = warp_size
    /\ block_params = << >>
    /\ truncated_decompressed_length = << >>
    /\ decompressed = << >>
    /\ writes = {}
    /\ first_possible_run_for_next_write = << >>
    /\ relative_write_position = << >>
    /\ pc = << >>

CallingWarps == DOMAIN active_lanes

Returned(g) == DOMAIN lane_result[g] # {}

\* the state in which the warps with the given active lanes and per-lane
\* arguments are about to make the call
StartCall(the_call, actives, values, initial_counter) ==
    /\ KernelNotLaunched
    /\ call = the_call
    /\ active_lanes = actives
    /\ lane_value = values
    /\ lane_result = [g \in DOMAIN actives |-> << >>]
    /\ f_evaluated_by = [g \in DOMAIN actives |-> {}]
    /\ counter = initial_counter
    /\ atomic_adds = {}
    /\ memory = << >>
    /\ accesses = {}

\* the call of warp g returns the given value to each of its active lanes
Return(g, results) ==
    lane_result' = [lane_result EXCEPT ![g] = results]

\* the lane whose index differs from lane's in the bit of shuffle_mask
lane_xor(lane, shuffle_mask) ==
    IF (lane \div shuffle_mask) % 2 = 0
    THEN lane + shuffle_mask ELSE lane - shuffle_mask

\* __shfl_xor by a single-bit mask, all lanes taking part
shfl_xor(value, shuffle_mask) ==
    [l \in DOMAIN value |-> value[lane_xor(l, shuffle_mask)]]

\* mutant: the shuffle reaches one lane down whatever the offset
shfl_up_mutant(value, delta) ==
    [l \in DOMAIN value |-> IF l >= 1 THEN value[l - 1] ELSE value[l]]

\* __shfl_up, all lanes taking part: a lane below delta gets its own value
shfl_up(value, delta) ==
    [l \in DOMAIN value |-> IF l >= delta THEN value[l - delta] ELSE value[l]]

\* the loop of reduce from the given shuffle_mask on
RECURSIVE reduce_from(_, _, _)
reduce_from(op, value, shuffle_mask) ==
    IF shuffle_mask > 0
    THEN reduce_from(op,
             [l \in DOMAIN value |->
                 ApplyOp(op, value[l], shfl_xor(value, shuffle_mask)[l])],
             shuffle_mask \div 2)
    ELSE value

\* mutant: the butterfly leaves out its widest step
reduce_mutant(op, value) == reduce_from(op, value, half_warp_size \div 2)

reduce(op, value) == reduce_from(op, value, half_warp_size)

\* the loop of scan from the given offset on, for a warp of the given width
RECURSIVE scan_from(_, _, _, _)
scan_from(op, x, offset, width) ==
    IF offset < width
    THEN scan_from(op,
             [l \in DOMAIN x |->
                 IF l >= offset
                 THEN ApplyOp(op, x[l], shfl_up(x, offset)[l])
                 ELSE x[l]],
             offset * 2, width)
    ELSE x

\* mutant: no shift by one lane before the loop
scan_initial_mutant(op, value, inclusive) == value

\* x before the loop of scan
scan_initial(op, value, inclusive) ==
    IF inclusive THEN value
    ELSE [l \in DOMAIN value |->
             IF l = 0 THEN neutral_value(op) ELSE shfl_up(value, 1)[l]]

scan(op, value, inclusive) ==
    scan_from(op, scan_initial(op, value, inclusive), 1, warp_size)

InitReduce ==
    \E op \in ReductionOps, value \in [Lanes -> 0 .. MaxValue] :
        StartCall([primitive |-> "reduce", ReductionOp |-> op],
                  <<Lanes>>, <<value>>, 0)

Reduce(g) ==
    /\ call.primitive = "reduce"
    /\ ~Returned(g)
    /\ Return(g, reduce(call.ReductionOp, lane_value[g]))
    /\ UNCHANGED << kernel, global_memory, call, active_lanes, lane_value,
                    f_evaluated_by, counter, atomic_adds >>

InitScan ==
    \E op \in ReductionOps, inclusive \in BOOLEAN,
       value \in [Lanes -> 0 .. MaxValue] :
        StartCall([primitive |-> "scan", ReductionOp |-> op,
                   Inclusive |-> inclusive],
                  <<Lanes>>, <<value>>, 0)

Scan(g) ==
    /\ call.primitive = "scan"
    /\ ~Returned(g)
    /\ Return(g, scan(call.ReductionOp, lane_value[g], call.Inclusive))
    /\ UNCHANGED << kernel, global_memory, call, active_lanes, lane_value,
                    f_evaluated_by, counter, atomic_adds >>

\* ReductionOp applied over the values of the lanes 0 .. last, from lane 0 on
RECURSIVE OpOver(_, _, _)
OpOver(op, value, last) ==
    IF last = 0 THEN value[0]
    ELSE ApplyOp(op, OpOver(op, value, last - 1), value[last])

(***************************************************************************)
(* C11. reduce: after the call every lane of a full warp holds the         *)
(* reduction of the values of all lanes; with plus over 32 lanes holding   *)
(* 1 .. 32 every lane holds 528.                                           *)
(***************************************************************************)
ReduceGivesFullReduction ==
    /\ \A g \in CallingWarps :
         (call.primitive = "reduce" /\ Returned(g)) =>
             \A l \in Lanes :
                 lane_result[g][l] =
                     OpOver(call.ReductionOp, lane_value[g], warp_size - 1)
    /\ \A l \in 0 .. 31 :
         reduce_from("plus", [k \in 0 .. 31 |-> k + 1], 16)[l] = 528

ReduceWitness ==
    /\ call.primitive = "reduce"
    /\ Returned(1)
    /\ \E l \in Lanes : \E m \in Lanes : lane_value[1][l] # lane_value[1][m]
    /\ \A l \in Lanes : lane_result[1][l] > MaxValue

(***************************************************************************)
(* C12. Inclusive scan: lane i of a full warp gets the reduction of the    *)
(* values of the lanes 0 .. i; with plus over 32 lanes holding 1, lane i   *)
(* gets i + 1.                                                             *)
(***************************************************************************)
InclusiveScanGivesPrefixes ==
    /\ \A g \in CallingWarps :
         (call.primitive = "scan" /\ call.Inclusive /\ Returned(g)) =>
             \A l \in Lanes :
                 lane_result[g][l] =
                     OpOver(call.ReductionOp, lane_value[g], l)
    /\ \A l \in 0 .. 31 :
         scan_from("plus", scan_initial("plus", [k \in 0 .. 31 |-> 1], TRUE),
                   1, 32)[l] = l + 1

InclusiveScanWitness ==
    /\ call.primitive = "scan" /\ call.Inclusive
    /\ Returned(1)
    /\ \E l \in Lanes : \E m \in Lanes : lane_value[1][l] # lane_value[1][m]
    /\ lane_result[1][last_lane] > lane_result[1][0]

(***************************************************************************)
(* C13. Exclusive scan: lane 0 of a full warp gets the neutral value and   *)
(* lane i > 0 the reduction of the values of the lanes 0 .. i - 1, which   *)
(* is what lane i - 1 gets from the inclusive scan of the same values;     *)
(* with plus over 32 lanes holding 1, lane i gets i.                       *)
(***************************************************************************)
ExclusiveScanGivesShiftedPrefixes ==
    /\ \A g \in CallingWarps :
         (call.primitive = "scan" /\ ~call.Inclusive /\ Returned(g)) =>
             /\ lane_result[g][0] = neutral_value(call.ReductionOp)
             /\ \A l \in Lanes \ {0} :
                  /\ lane_result[g][l] =
                         OpOver(call.ReductionOp, lane_value[g], l - 1)
                  /\ lane_result[g][l] =
                         scan(call.ReductionOp, lane_value[g], TRUE)[l - 1]
    /\ \A l \in 0 .. 31 :
         scan_from("plus", scan_initial("plus", [k \in 0 .. 31 |-> 1], FALSE),
                   1, 32)[l] = l

ExclusiveScanWitness ==
    /\ call.primitive = "scan" /\ ~call.Inclusive
    /\ Returned(1)
    /\ lane_value[1][last_lane] # 0
    /\ lane_result[1][last_lane] > lane_result[1][1]
    /\ lane_result[1][1] > 0

active_lanes_mask(callers) == warp_ballot([l \in callers |-> TRUE], callers)

active_lane_count(callers) == population_count(active_lanes_mask(callers))

select_leader_lane(PreferFirstLane, mask) ==
    IF PreferFirstLane
    THEN count_leading_zeros(mask)
    ELSE count_trailing_zeros(mask)

am_leader_lane(PreferFirstLane, mask, lane) ==
    select_leader_lane(PreferFirstLane, mask) = lane

NonEmptyMasks == (SUBSET Lanes) \ {{}}

NoArguments == [l \in Lanes |-> 0]

InitSelectLeaderLane ==
    \E prefer \in BOOLEAN, active \in NonEmptyMasks :
        StartCall([primitive |-> "select_leader_lane",
                   PreferFirstLane |-> prefer],
                  <<active>>, <<NoArguments>>, 0)

SelectLeaderLane(g) ==
    /\ call.primitive = "select_leader_lane"
    /\ ~Returned(g)
    /\ Return(g, [l \in active_lanes[g] |->
                     select_leader_lane(call.PreferFirstLane,
                                        active_lanes_mask(active_lanes[g]))])
    /\ UNCHANGED << kernel, global_memory, call, active_lanes, lane_value,
                    f_evaluated_by, counter, atomic_adds >>

(***************************************************************************)
(* C14. select_leader_lane returns, for every non-empty mask of active     *)
(* lanes, the lowest active lane when PreferFirstLane holds and the        *)
(* highest active lane otherwise.                                          *)
(***************************************************************************)
LeaderIsFirstOrLastActiveLane ==
    \A g \in CallingWarps :
        (call.primitive = "select_leader_lane" /\ Returned(g)) =>
            \A l \in active_lanes[g] :
                lane_result[g][l] =
                    IF call.PreferFirstLane THEN MinOf(active_lanes[g])
                    ELSE MaxOf(active_lanes[g])

InitAmLeaderLane ==
    \E prefer \in BOOLEAN, active \in NonEmptyMasks :
        StartCall([primitive |-> "am_leader_lane",
                   PreferFirstLane |-> prefer],
                  <<active>>, <<NoArguments>>, 0)

AmLeaderLane(g) ==
    /\ call.primitive = "am_leader_lane"
    /\ ~Returned(g)
    /\ Return(g, [l \in active_lanes[g] |->
                     am_leader_lane(call.PreferFirstLane,
                                    active_lanes_mask(active_lanes[g]), l)])
    /\ UNCHANGED << kernel, global_memory, call, active_lanes, lane_value,
                    f_evaluated_by, counter, atomic_adds >>

(***************************************************************************)
(* C15. am_leader_lane: for every non-empty set of active lanes and either *)
(* PreferFirstLane, exactly one active lane gets true.                     *)
(***************************************************************************)
ExactlyOneLeaderLane ==
    \A g \in CallingWarps :
        (call.primitive = "am_leader_lane" /\ Returned(g)) =>
            Cardinality({l \in active_lanes[g] : lane_result[g][l]}) = 1

\* mutant: every lane evaluates f and keeps its own result
have_a_single_lane_compute_mutant(f, designated_computing_lane, callers, undefined) ==
    [evaluated_by |-> callers, result |-> [l \in callers |-> f[l]]]

\* f maps each lane to what f() would return if evaluated by that lane
have_a_single_lane_compute(f, designated_computing_lane, callers, undefined) ==
    [evaluated_by |-> {l \in callers : l = designated_computing_lane},
     result |-> get_from_lane(f, designated_computing_lane, callers,
                              undefined)]

InitHaveASingleLaneCompute ==
    \E designated \in Lanes, f \in [Lanes -> 0 .. MaxValue] :
        StartCall([primitive |-> "have_a_single_lane_compute",
                   designated_computing_lane |-> designated],
                  <<Lanes>>, <<f>>, 0)

HaveASingleLaneCompute(g) ==
    /\ call.primitive = "have_a_single_lane_compute"
    /\ ~Returned(g)
    /\ \E undefined \in
            [LanesReadingUndefined(call.designated_computing_lane,
                                   active_lanes[g]) -> UndefinedValues] :
         LET computed ==
                 have_a_single_lane_compute(lane_value[g],
                     call.designated_computing_lane, active_lanes[g],
                     undefined)
         IN  /\ Return(g, computed.result)
             /\ f_evaluated_by' =
                    [f_evaluated_by EXCEPT ![g] = computed.evaluated_by]
    /\ UNCHANGED << kernel, global_memory, call, active_lanes, lane_value, counter,
                    atomic_adds >>

have_a_single_active_lane_compute(f, PreferFirstLane, mask, callers, undefined) ==
    have_a_single_lane_compute(f, select_leader_lane(PreferFirstLane, mask),
                               callers, undefined)

InitHaveASingleActiveLaneCompute ==
    \E prefer \in BOOLEAN, active \in NonEmptyMasks,
       f \in [Lanes -> 0 .. MaxValue] :
        StartCall([primitive |-> "have_a_single_active_lane_compute",
                   PreferFirstLane |-> prefer],
                  <<active>>, <<f>>, 0)

HaveASingleActiveLaneCompute(g) ==
    /\ call.primitive = "have_a_single_active_lane_compute"
    /\ ~Returned(g)
    /\ \E undefined \in
            [LanesReadingUndefined(
                 select_leader_lane(call.PreferFirstLane,
                                    active_lanes_mask(active_lanes[g])),
                 active_lanes[g]) -> UndefinedValues] :
         LET computed ==
                 have_a_single_active_lane_compute(lane_value[g],
                     call.PreferFirstLane,
                     active_lanes_mask(active_lanes[g]), active_lanes[g],
                     undefined)
         IN  /\ Return(g, computed.result)
             /\ f_evaluated_by' =
                    [f_evaluated_by EXCEPT ![g] = computed.evaluated_by]
    /\ UNCHANGED << kernel, global_memory, call, active_lanes, lane_value, counter,
                    atomic_adds >>

(***************************************************************************)
(* C17. have_a_single_active_lane_compute: for every non-empty set of      *)
(* active lanes, f is evaluated by exactly one lane, an active one, and    *)
(* every active lane gets that lane's result.                              *)
(***************************************************************************)
OneActiveLaneComputesForAll ==
    \A g \in CallingWarps :
        (call.primitive = "have_a_single_active_lane_compute"
            /\ Returned(g)) =>
            \E leader \in active_lanes[g] :
                /\ f_evaluated_by[g] = {leader}
                /\ \A l \in active_lanes[g] :
                     lane_result[g][l] = lane_value[g][leader]

\* the conversion of a bool to an unsigned integer
bool_to_unsigned(b) == IF b THEN 1 ELSE 0

\* detail::lane_index_among_active_lanes: the population count of the mask
\* of the lanes below the calling one, returned as a bool
detail_lane_index_among_active_lanes(mask, lane) ==
    population_count({k \in Lanes : k < lane}) # 0

lane_index_among_active_lanes(callers, lane) ==
    bool_to_unsigned(
        detail_lane_index_among_active_lanes(active_lanes_mask(callers), lane))

InitLaneIndexAmongActiveLanes ==
    \E active \in NonEmptyMasks :
        StartCall([primitive |-> "lane_index_among_active_lanes"],
                  <<active>>, <<NoArguments>>, 0)

LaneIndexAmongActiveLanes(g) ==
    /\ call.primitive = "lane_index_among_active_lanes"
    /\ ~Returned(g)
    /\ Return(g, [l \in active_lanes[g] |->
                     lane_index_among_active_lanes(active_lanes[g], l)])
    /\ UNCHANGED << kernel, global_memory, call, active_lanes, lane_value,
                    f_evaluated_by, counter, atomic_adds >>

(***************************************************************************)
(* C20. lane_index_among_active_lanes returns, to the lane with index i    *)
(* and whatever the active lanes are, the number of lanes with a lower     *)
(* index, which is i.                                                      *)
(***************************************************************************)
LaneIndexAmongAllLowerLanes ==
    \A g \in CallingWarps :
        (call.primitive = "lane_index_among_active_lanes" /\ Returned(g)) =>
            \A l \in active_lanes[g] : lane_result[g][l] = l

\* the value each active lane returns from active_lanes_increment, when the
\* lanes in evaluated_by performed the add and got `before' from it
active_lanes_increment_result(before, lanes_mask, callers, undefined) ==
    LET computed ==
            have_a_single_lane_compute([l \in Lanes |-> before],
                select_leader_lane(TRUE, lanes_mask), callers, undefined)
    IN  [evaluated_by |-> computed.evaluated_by,
         result |->
            [l \in callers |->
                computed.result[l] + bool_to_unsigned(
                    detail_lane_index_among_active_lanes(lanes_mask, l))]]

InitActiveLanesIncrement ==
    \E actives \in [1 .. NumCallingWarps -> NonEmptyMasks],
       initial \in 0 .. MaxValue :
        StartCall([primitive |-> "active_lanes_increment",
                   initial_counter |-> initial],
                  actives, [g \in 1 .. NumCallingWarps |-> NoArguments],
                  initial)

ActiveLanesIncrement(g) ==
    /\ call.primitive = "active_lanes_increment"
    /\ ~Returned(g)
    /\ LET lanes_mask == active_lanes_mask(active_lanes[g])
           count == population_count(lanes_mask)
       IN  \E undefined \in
                [LanesReadingUndefined(select_leader_lane(TRUE, lanes_mask),
                                       active_lanes[g]) -> UndefinedValues] :
             LET incremented ==
                     active_lanes_increment_result(counter, lanes_mask,
                         active_lanes[g], undefined)
             IN  /\ counter' = counter
                        + count * Cardinality(incremented.evaluated_by)
                 /\ atomic_adds' = atomic_adds \cup
                        {[warp |-> g, lane |-> l, amount |-> count,
                          before |-> counter] :
                            l \in incremented.evaluated_by}
                 /\ f_evaluated_by' =
                        [f_evaluated_by EXCEPT
                            ![g] = incremented.evaluated_by]
                 /\ Return(g, incremented.result)
    /\ UNCHANGED << kernel, global_memory, call, active_lanes, lane_value >>

RECURSIVE ActiveLanesOfReturned(_)
ActiveLanesOfReturned(n) ==
    IF n = 0 THEN 0
    ELSE ActiveLanesOfReturned(n - 1)
           + (IF Returned(n) THEN Cardinality(active_lanes[n]) ELSE 0)

(***************************************************************************)
(* C18. active_lanes_increment called by a warp with k >= 1 active lanes   *)
(* performs exactly one atomic add, of k: the counter has grown by the     *)
(* number of active lanes of the warps that have returned.                 *)
(***************************************************************************)
OneAtomicAddOfActiveLaneCount ==
    call.primitive = "active_lanes_increment" =>
        /\ \A g \in CallingWarps :
             Returned(g) =>
                /\ Cardinality({a \in atomic_adds : a.warp = g}) = 1
                /\ \A a \in atomic_adds :
                     a.warp = g => a.amount = Cardinality(active_lanes[g])
        /\ counter = call.initial_counter
                       + ActiveLanesOfReturned(NumCallingWarps)

AllReturned == \A g \in CallingWarps : Returned(g)

(***************************************************************************)
(* C19. The values active_lanes_increment returns: each active lane gets   *)
(* the counter's value before its warp's add plus its rank among the       *)
(* warp's active lanes; once all warps have returned, the values returned  *)
(* to the N active lanes are pairwise distinct and are exactly             *)
(* c, c + 1, ..., c + N - 1 for the initial value c of the counter.        *)
(***************************************************************************)
IncrementReturnsDistinctTickets ==
    call.primitive = "active_lanes_increment" =>
        /\ \A g \in CallingWarps :
             Returned(g) =>
                \A a \in atomic_adds :
                    a.warp = g =>
                        \A l \in active_lanes[g] :
                            lane_result[g][l] =
                                a.before + Cardinality(
                                    {k \in active_lanes[g] : k < l})
        /\ AllReturned =>
             LET returns ==
                     {<<g, l>> \in CallingWarps \X Lanes :
                         l \in active_lanes[g]}
                 given == {lane_result[x[1]][x[2]] : x \in returns}
             IN  /\ Cardinality(given) = Cardinality(returns)
                 /\ given = call.initial_counter ..
                               (call.initial_counter
                                  + Cardinality(returns) - 1)

MaxStraw == 4

Straws == 0 .. MaxStraw

\* what an undefined read of a straw may give: a value below every needle
\* and a value above every needle
UndefinedStraws == {0, MaxStraw + 1}

\* the hay straws of a warp, in order: a lower lane holds a lower straw
SortedHaystacks ==
    {hay \in [Lanes -> Straws] :
        \A i \in Lanes, j \in Lanes : (i < j) => (hay[i] < hay[j])}

cutoff_to_linear_search == 6

\* search_result_t::is_set
is_set(result) == result.lane_index < warp_size

\* bounds of each lane before the loops of multisearch
initial_search_bounds(lane_needle, lane_hay_straw) ==
    [l \in Lanes |->
        IF lane_needle[l] <= lane_hay_straw[l]
        THEN [lower |-> 0, upper |-> l]
        ELSE [lower |-> l + 1, upper |-> warp_size]]

\* the while loop of multisearch, the lanes in lockstep: a lane reads the
\* needle of lane mid, which is undefined when that lane has left the loop
RECURSIVE binary_search_bounds(_, _, _)
binary_search_bounds(lane_needle, bounds, undefined) ==
    LET searching ==
            {l \in Lanes :
                bounds[l].upper - bounds[l].lower >= cutoff_to_linear_search}
        mid(l) == (bounds[l].lower + bounds[l].upper) \div 2
        mid_lane_hay_straw(l) ==
            IF mid(l) \in searching THEN lane_needle[mid(l)] ELSE undefined[l]
    IN  IF searching = {} THEN bounds
        ELSE binary_search_bounds(lane_needle,
                 [l \in Lanes |->
                     IF l \notin searching THEN bounds[l]
                     ELSE IF lane_needle[l] <= mid_lane_hay_straw(l)
                          THEN [lower |-> mid(l) + 1, upper |-> bounds[l].upper]
                          ELSE [lower |-> bounds[l].lower, upper |-> mid(l)]],
                 undefined)

\* the for loop of multisearch from its iteration number `iteration' on, the
\* lanes in lockstep: a lane reads the needle of lane bounds.lower + iteration,
\* which is undefined when that lane is not in this iteration of the loop
RECURSIVE linear_search(_, _, _, _, _)
linear_search(lane_needle, bounds, result, iteration, undefined) ==
    LET looping ==
            {l \in Lanes : /\ bounds[l].lower + iteration < bounds[l].upper
                           /\ ~is_set(result[l])}
        lane(l) == bounds[l].lower + iteration
        hay_straw(l) ==
            IF lane(l) \in looping THEN lane_needle[lane(l)] ELSE undefined[l]
    IN  IF looping = {} THEN result
        ELSE linear_search(lane_needle, bounds,
                 [l \in Lanes |->
                     IF l \in looping /\ hay_straw(l) > lane_needle[l]
                     THEN [lane_index |-> lane(l), value |-> hay_straw(l)]
                     ELSE result[l]],
                 iteration + 1, undefined)

\* multisearch for a full warp; value of a result that is not set is not
\* initialized
multisearch(lane_needle, lane_hay_straw, undefined) ==
    linear_search(lane_needle,
        binary_search_bounds(lane_needle,
            initial_search_bounds(lane_needle, lane_hay_straw), undefined),
        [l \in Lanes |-> [lane_index |-> warp_size, value |-> undefined[l]]],
        0, undefined)

InitMultisearch ==
    \E hay \in SortedHaystacks, needle \in [Lanes -> Straws] :
        StartCall([primitive |-> "multisearch"], <<Lanes>>,
                  <<[l \in Lanes |-> [lane_needle |-> needle[l],
                                      lane_hay_straw |-> hay[l]]]>>, 0)

Multisearch(g) ==
    /\ call.primitive = "multisearch"
    /\ ~Returned(g)
    /\ \E undefined \in [Lanes -> UndefinedStraws] :
         Return(g, multisearch([l \in Lanes |-> lane_value[g][l].lane_needle],
                       [l \in Lanes |-> lane_value[g][l].lane_hay_straw],
                       undefined))
    /\ UNCHANGED << kernel, global_memory, call, active_lanes, lane_value,
                    f_evaluated_by, counter, atomic_adds >>

NextSearch == \E g \in CallingWarps : Multisearch(g)

SpecSearch == InitMultisearch /\ [][NextSearch]_vars

\* the lanes whose hay straw is greater than the needle of the given lane
GreaterStraws(g, lane) ==
    {j \in Lanes :
        lane_value[g][j].lane_hay_straw > lane_value[g][lane].lane_needle}

(***************************************************************************)
(* C21. multisearch, found case: with the hay straws strictly increasing   *)
(* over the lanes, every lane for whose needle some lane holds a greater   *)
(* straw gets the lowest such lane and the straw of that lane; with the    *)
(* needles equal to the straws, lane i gets lane i + 1 and its straw.      *)
(***************************************************************************)
MultisearchFindsFirstGreaterStraw ==
    \A g \in CallingWarps :
        (call.primitive = "multisearch" /\ Returned(g)) =>
            \A l \in Lanes :
                GreaterStraws(g, l) # {} =>
                    /\ lane_result[g][l].lane_index = MinOf(GreaterStraws(g, l))
                    /\ lane_result[g][l].value =
                         lane_value[g][MinOf(GreaterStraws(g, l))].lane_hay_straw

(***************************************************************************)
(* C22. multisearch, not-found case: a lane gets the lane index warp_size, *)
(* a result that is not set, exactly when no lane holds a straw greater    *)
(* than its needle.                                                        *)
(***************************************************************************)
MultisearchNotFoundIffNoGreaterStraw ==
    \A g \in CallingWarps :
        (call.primitive = "multisearch" /\ Returned(g)) =>
            \A l \in Lanes :
                (lane_result[g][l].lane_index = warp_size)
                    <=> (GreaterStraws(g, l) = {})

(***************************************************************************)
(* The instantiation of the decompress kernel for the sizes of its index   *)
(* and position offset types: the static assertions are evaluated when the *)
(* instantiation is compiled, and only a compiled kernel is launched.      *)
(***************************************************************************)
MaxTemplateSize == 8

TemplateSizes == 1 .. MaxTemplateSize

is_power_of_2(n) == \E k \in 0 .. n : 2 ^ k = n

\* mutant: no assertion on the sizes of absolute positions
static_asserts_hold_mutant(IndexSize, PositionOffsetSize, relative) ==
    is_power_of_2(IndexSize) /\ is_power_of_2(PositionOffsetSize)

\* the static assertions of decompress
static_asserts_hold(IndexSize, PositionOffsetSize, relative) ==
    /\ is_power_of_2(IndexSize)
    /\ is_power_of_2(PositionOffsetSize)
    /\ (relative \/ PositionOffsetSize >= IndexSize)

InitInstantiation ==
    \E IndexSize \in TemplateSizes, PositionOffsetSize \in TemplateSizes,
       relative \in BOOLEAN :
        StartCall([primitive |-> "decompress", IndexSize |-> IndexSize,
                   PositionOffsetSize |-> PositionOffsetSize,
                   PositionsAreRelative |-> relative, stage |-> "source"],
                  << >>, << >>, 0)

\* the instantiation is compiled
Instantiate ==
    /\ call.primitive = "decompress"
    /\ call.stage = "source"
    /\ call' = [call EXCEPT !.stage =
                   IF static_asserts_hold(call.IndexSize, call.PositionOffsetSize,
                                          call.PositionsAreRelative)
                   THEN "compiled" ELSE "rejected"]
    /\ UNCHANGED << kernel, global_memory, active_lanes, lane_value,
                    lane_result, f_evaluated_by, counter, atomic_adds >>

\* the compiled kernel is launched and decompresses
LaunchInstantiation ==
    /\ call.primitive = "decompress"
    /\ call.stage = "compiled"
    /\ call' = [call EXCEPT !.stage = "decompressing"]
    /\ UNCHANGED << kernel, global_memory, active_lanes, lane_value,
                    lane_result, f_evaluated_by, counter, atomic_adds >>

NextInstantiation == Instantiate \/ LaunchInstantiation

SpecInstantiation == InitInstantiation /\ [][NextInstantiation]_vars

PowersOfTwo == {2 ^ k : k \in 0 .. MaxTemplateSize}

(***************************************************************************)
(* C29. An instantiation of decompress is accepted only if IndexSize and   *)
(* PositionOffsetSize are powers of two and, with absolute positions,      *)
(* PositionOffsetSize is at least IndexSize; every other instantiation is  *)
(* rejected when it is compiled, before any decompression; an              *)
(* instantiation has no outcome that is an error at run time.              *)
(***************************************************************************)
InstantiationGuarded ==
    (call.primitive = "decompress") =>
        LET admissible ==
                /\ call.IndexSize \in PowersOfTwo
                /\ call.PositionOffsetSize \in PowersOfTwo
                /\ (~call.PositionsAreRelative =>
                        call.PositionOffsetSize >= call.IndexSize)
        IN  /\ call.stage \in {"source", "compiled", "rejected", "decompressing"}
            /\ call.stage \in {"compiled", "decompressing"} => admissible
            /\ call.stage = "rejected" => ~admissible

\* an instantiation with absolute positions and a position offset type
\* larger than the index type decompresses
InstantiationGuardedWitness ==
    /\ call.primitive = "decompress"
    /\ call.stage = "decompressing"
    /\ ~call.PositionsAreRelative
    /\ call.PositionOffsetSize > call.IndexSize

(***************************************************************************)
(* Primitives working on arrays in memory, each called by one full warp.   *)
(***************************************************************************)
\* the state in which a full warp is about to call a primitive on the arrays
StartCallOnMemory(the_call, arrays) ==
    /\ KernelNotLaunched
    /\ call = the_call
    /\ active_lanes = <<Lanes>>
    /\ lane_value = <<NoArguments>>
    /\ lane_result = << << >> >>
    /\ f_evaluated_by = << {} >>
    /\ counter = 0
    /\ atomic_adds = {}
    /\ memory = arrays
    /\ accesses = {}

\* the call of warp g, which has no result, returns
ReturnVoid(g) == Return(g, [l \in active_lanes[g] |-> "void"])

PredicateModulus == 5

MaxRoundsOfPredicate == 2

MaxPredicateLength == MaxRoundsOfPredicate * warp_size * warp_size + warp_size + 1

\* the predicates of the calls: those that depend on the index modulo
\* PredicateModulus
Predicates == SUBSET (0 .. PredicateModulus - 1)

\* Predicate::operator()
Predicate(p, pos) == (pos % PredicateModulus) \in p

PossibilitiesOfSlack ==
    {"has_no_slack", "may_have_full_warps_of_slack", "may_have_arbitrary_slack"}

\* what the caller promises about length with the template argument
LengthAdmittedBy(length, PossibilityOfSlack) ==
    CASE PossibilityOfSlack = "has_no_slack" ->
             length % (warp_size * warp_size) = 0
      [] PossibilityOfSlack = "may_have_full_warps_of_slack" ->
             length % warp_size = 0
      [] PossibilityOfSlack = "may_have_arbitrary_slack" -> TRUE

\* a word of computed_predicate as the set of its bits that are 1: the
\* content of the array before the call
InitialWords == {{}, Lanes}

round_down_to_warp_size(x) == x - (x % warp_size)

full_warp_reads_output_length(length) == length \div (2 ^ log_warp_size)

\* mutant: the number of full words is not rounded down to whole rounds
full_warp_writes_output_length_mutant(length, PossibilityOfSlack) ==
    full_warp_reads_output_length(length)

\* mutant: only the may_have_arbitrary_slack variant rounds down
full_warp_writes_output_length_variant_mutant(length, PossibilityOfSlack) ==
    IF PossibilityOfSlack = "may_have_arbitrary_slack"
    THEN round_down_to_warp_size(full_warp_reads_output_length(length))
    ELSE full_warp_reads_output_length(length)

full_warp_writes_output_length(length, PossibilityOfSlack) ==
    IF PossibilityOfSlack = "has_no_slack"
    THEN full_warp_reads_output_length(length)
    ELSE round_down_to_warp_size(full_warp_reads_output_length(length))

\* the first loop of compute_predicate_at_warp_stride from its iteration
\* number `round' on: the lanes still in the loop take warp_size ballots, the
\* results of ballot number writing_lane being for the positions input_pos of
\* the lanes and kept by lane writing_lane, which writes them at output_pos
RECURSIVE full_warp_writes(_, _, _, _)
full_warp_writes(p, writes_output_length, round, computed_predicate) ==
    LET output_pos(l) == l + round * warp_size
        looping == {l \in Lanes : output_pos(l) < writes_output_length}
        input_pos(l, writing_lane) ==
            l + (round * warp_size + writing_lane) * warp_size
        warp_results(writing_lane) ==
            warp_ballot([l \in Lanes |-> Predicate(p, input_pos(l, writing_lane))],
                        looping)
    IN  IF looping = {} THEN computed_predicate
        ELSE full_warp_writes(p, writes_output_length, round + 1,
                 [o \in DOMAIN computed_predicate |->
                     IF \E l \in looping : o = output_pos(l)
                     THEN warp_results(o - round * warp_size)
                     ELSE computed_predicate[o]])

\* mutant: the word of the elements that do not fill a warp is counted
\* whether there are such elements or not
num_writing_lanes_mutant(length, PossibilityOfSlack) ==
    (full_warp_reads_output_length(length)
        - full_warp_writes_output_length(length, PossibilityOfSlack))
    + (IF PossibilityOfSlack = "may_have_arbitrary_slack" THEN 1 ELSE 0)

\* the number of lanes that write after the first loop
num_writing_lanes(length, PossibilityOfSlack) ==
    (full_warp_reads_output_length(length)
        - full_warp_writes_output_length(length, PossibilityOfSlack))
    + (IF /\ PossibilityOfSlack = "may_have_arbitrary_slack"
          /\ length % warp_size > 0
       THEN 1 ELSE 0)

\* the part of compute_predicate_at_warp_stride after the first loop, which
\* all lanes leave with output_pos and input_pos advanced alike
slack_writes(p, length, PossibilityOfSlack, computed_predicate) ==
    LET writes_output_length ==
            full_warp_writes_output_length(length, PossibilityOfSlack)
        full_warp_reads_output_slack_length ==
            full_warp_reads_output_length(length) - writes_output_length
        output_pos(l) == l + writes_output_length
        input_pos(l, writing_lane) ==
            l + (writes_output_length + writing_lane) * warp_size
        thread_result(l, writing_lane) ==
            IF writing_lane < full_warp_reads_output_slack_length
            THEN Predicate(p, input_pos(l, writing_lane))
            ELSE IF input_pos(l, writing_lane) < length
                 THEN Predicate(p, input_pos(l, writing_lane))
                 ELSE FALSE
        warp_results(writing_lane) ==
            warp_ballot([l \in Lanes |-> thread_result(l, writing_lane)], Lanes)
    IN  [o \in DOMAIN computed_predicate |->
            IF \E l \in Lanes :
                  /\ l < num_writing_lanes(length, PossibilityOfSlack)
                  /\ o = output_pos(l)
            THEN warp_results(o - writes_output_length)
            ELSE computed_predicate[o]]

compute_predicate_at_warp_stride(computed_predicate, p, length, PossibilityOfSlack) ==
    LET written ==
            full_warp_writes(p,
                full_warp_writes_output_length(length, PossibilityOfSlack),
                0, computed_predicate)
    IN  IF PossibilityOfSlack # "has_no_slack"
        THEN slack_writes(p, length, PossibilityOfSlack, written)
        ELSE written

\* a store to computed_predicate[index] by the lane in the round of its code
WordWrite(lane, round, index) ==
    [lane |-> lane, step |-> round, array |-> "computed_predicate",
     index |-> index, kind |-> "write"]

\* compute_predicate_at_warp_stride: the stores made, by the lanes in the
\* rounds of the first loop at output_pos, and after the loop by the lanes
\* below num_writing_lanes at the output_pos they left the loop with
computed_predicate_stores(length, PossibilityOfSlack) ==
    LET writes_output_length ==
            full_warp_writes_output_length(length, PossibilityOfSlack)
        rounds == div_rounding_up(writes_output_length, warp_size)
        output_pos(l, round) == l + round * warp_size
        in_loop(l) ==
            {WordWrite(l, round, output_pos(l, round)) :
                round \in {r \in 0 .. rounds - 1 :
                              output_pos(l, r) < writes_output_length}}
        rounds_of(l) == Cardinality(in_loop(l))
        after_loop(l) ==
            IF /\ PossibilityOfSlack # "has_no_slack"
               /\ l < num_writing_lanes(length, PossibilityOfSlack)
            THEN {WordWrite(l, rounds_of(l), output_pos(l, rounds_of(l)))}
            ELSE {}
    IN  UNION {in_loop(l) \cup after_loop(l) : l \in Lanes}

InitComputePredicateAtWarpStride ==
    \E length \in 0 .. MaxPredicateLength, p \in Predicates,
       slack \in PossibilitiesOfSlack, word \in InitialWords :
        /\ LengthAdmittedBy(length, slack)
        /\ StartCallOnMemory(
               [primitive |-> "compute_predicate_at_warp_stride",
                predicate |-> p, length |-> length,
                PossibilityOfSlack |-> slack],
               [computed_predicate |->
                   [o \in 0 .. div_rounding_up(length, warp_size) - 1 |-> word]])

ComputePredicateAtWarpStride(g) ==
    /\ call.primitive = "compute_predicate_at_warp_stride"
    /\ ~Returned(g)
    /\ memory' = [memory EXCEPT !.computed_predicate =
                     compute_predicate_at_warp_stride(@, call.predicate,
                         call.length, call.PossibilityOfSlack)]
    /\ accesses' = computed_predicate_stores(call.length,
                                              call.PossibilityOfSlack)
    /\ ReturnVoid(g)
    /\ UNCHANGED << kernel, call, active_lanes, lane_value,
                    f_evaluated_by, counter, atomic_adds >>

(***************************************************************************)
(* C23. compute_predicate_at_warp_stride with may_have_arbitrary_slack:    *)
(* after the call, for every i below length, bit i mod warp_size of the    *)
(* word i div warp_size of computed_predicate is predicate(i); for lengths *)
(* that are multiples of warp_size * warp_size, multiples of warp_size     *)
(* only, and others.                                                       *)
(***************************************************************************)
PredicateBitsPacked ==
    \A g \in CallingWarps :
        (/\ call.primitive = "compute_predicate_at_warp_stride"
         /\ call.PossibilityOfSlack = "may_have_arbitrary_slack"
         /\ Returned(g)) =>
            \A i \in 0 .. call.length - 1 :
                ((i % warp_size) \in memory.computed_predicate[i \div warp_size])
                    <=> Predicate(call.predicate, i)

\* a call with two rounds of full-warp writes, full warps of slack and a
\* last word that is not full has returned, the predicate holding at some
\* indices and not at others
PredicateBitsPackedWitness ==
    \E g \in CallingWarps :
        /\ call.primitive = "compute_predicate_at_warp_stride"
        /\ call.PossibilityOfSlack = "may_have_arbitrary_slack"
        /\ Returned(g)
        /\ call.length = MaxPredicateLength
        /\ call.predicate = {1, 3}
        /\ memory.computed_predicate[0] =
             {l \in Lanes : Predicate(call.predicate, l)}
        /\ memory.computed_predicate[0] \notin InitialWords
        /\ memory.computed_predicate[MaxPredicateLength \div warp_size] # Lanes

(***************************************************************************)
(* C24. For a length that is a multiple of warp_size * warp_size the       *)
(* has_no_slack variant leaves the words the may_have_arbitrary_slack      *)
(* variant leaves, and for a multiple of warp_size so does the             *)
(* may_have_full_warps_of_slack variant.                                   *)
(***************************************************************************)
SlackVariantsAgree ==
    \A g \in CallingWarps :
        (/\ call.primitive = "compute_predicate_at_warp_stride"
         /\ call.PossibilityOfSlack # "may_have_arbitrary_slack"
         /\ Returned(g)) =>
            \A word \in InitialWords :
                memory.computed_predicate =
                    compute_predicate_at_warp_stride(
                        [o \in DOMAIN memory.computed_predicate |-> word],
                        call.predicate, call.length,
                        "may_have_arbitrary_slack")

\* the may_have_full_warps_of_slack variant has returned from a call with a
\* round of full-warp writes and one more word
SlackVariantsAgreeWitness ==
    \E g \in CallingWarps :
        /\ call.primitive = "compute_predicate_at_warp_stride"
        /\ Returned(g)
        /\ call.predicate = {0, 2}
        /\ call.PossibilityOfSlack = "may_have_full_warps_of_slack"
        /\ call.length = warp_size * warp_size + warp_size
        /\ memory.computed_predicate[warp_size] =
             {l \in Lanes :
                 Predicate(call.predicate, warp_size * warp_size + l)}
        /\ memory.computed_predicate[warp_size] \notin InitialWords

(***************************************************************************)
(* C37  Frame of compute_predicate_at_warp_stride: for every length and    *)
(* every possibility of slack that admits it, the call stores to exactly   *)
(* the words of computed_predicate with index in                           *)
(* [0, ceil(length / warp_size)), to each exactly once and by one lane,    *)
(* and to no word at an index >= ceil(length / warp_size).                 *)
(***************************************************************************)
NumWordsOfPredicate == div_rounding_up(call.length, warp_size)

PredicateWordsStoredOnce ==
    \A g \in CallingWarps :
        (call.primitive = "compute_predicate_at_warp_stride" /\ Returned(g)) =>
            /\ \A a \in accesses :
                   /\ a.kind = "write"
                   /\ a.array = "computed_predicate"
                   /\ 0 <= a.index
                   /\ a.index < NumWordsOfPredicate
            /\ \A o \in 0 .. NumWordsOfPredicate - 1 :
                   Cardinality({a \in accesses : a.index = o}) = 1

\* a call with rounds of the first loop, whole words after it and elements
\* that do not fill a word has returned, having stored in the loop and
\* after it
PredicateWordsStoredOnceWitness ==
    \E g \in CallingWarps :
        /\ call.primitive = "compute_predicate_at_warp_stride"
        /\ Returned(g)
        /\ call.PossibilityOfSlack = "may_have_arbitrary_slack"
        /\ call.length = warp_size * warp_size + warp_size + 1
        /\ \E a, b, c \in accesses :
              /\ a.step = 0 /\ a.index = warp_size - 1
              /\ b.step = 1 /\ b.index = warp_size
              /\ c.step = 1 /\ c.index = warp_size + 1 /\ c.lane = 1

(***************************************************************************)
(* Copies and other transforms of arrays.  An array passed with a length   *)
(* holds that many elements, the elements 0 .. length - 1.                 *)
(***************************************************************************)
MaxPackedRounds == 2

MaxCopyLength == MaxPackedRounds * warp_size * sizeof_unsigned + sizeof_unsigned - 1

ElementSizes == {1, 2, 4, 8}

Elements == 0 .. MaxValue

\* the contents of an array of the given length: an arithmetic progression
\* of elements, modulo the number of elements
ElementArrays(length) ==
    {[i \in 0 .. length - 1 |-> (first + i * step) % (MaxValue + 1)] :
        first \in Elements, step \in 1 .. MaxValue}

\* an array of the given length nothing of which has been written
UnwrittenArray(length) == [i \in 0 .. length - 1 |-> Unwritten]

\* the positions of `for (pos = ...; pos < length; pos += stride)', in order
RECURSIVE positions_at_stride(_, _, _)
positions_at_stride(pos, length, stride) ==
    IF pos < length
    THEN <<pos>> \o positions_at_stride(pos + stride, length, stride)
    ELSE << >>

\* mutant: the loop starts one position further on
positions_at_warp_stride_mutant(lane, length) ==
    positions_at_stride(lane + 1, length, warp_size)

\* for (pos = lane::index(); pos < length; pos += warp_size)
positions_at_warp_stride(lane, length) ==
    positions_at_stride(lane, length, warp_size)

\* the outcomes of a call: it returns, or an access outside an array ends
\* the kernel
Outcomes(out_of_range) ==
    IF out_of_range THEN {"void", "illegal_address"} ELSE {"void"}

\* the read of arrays[array][index] by the lane in the step of its code
ReadOf(arrays, lane, step, array, index, undefined) ==
    [lane |-> lane, step |-> step, array |-> array, index |-> index,
     kind |-> "read",
     value |-> IF index \in DOMAIN arrays[array] THEN arrays[array][index]
               ELSE undefined]

\* the write of value to arrays[array][index]
WriteOf(lane, step, array, index, value) ==
    [lane |-> lane, step |-> step, array |-> array, index |-> index,
     kind |-> "write", value |-> value]

\* the copy of one element from arrays[from] to arrays[to]
CopyOf(arrays, lane, step, to, from, index, undefined) ==
    {ReadOf(arrays, lane, step, from, index, undefined),
     WriteOf(lane, step, to, index,
             ReadOf(arrays, lane, step, from, index, undefined).value)}

\* the arrays after the writes among the accesses
Stored(arrays, performed) ==
    [a \in DOMAIN arrays |->
        [i \in DOMAIN arrays[a] |->
            LET stores == {w \in performed : /\ w.kind = "write"
                                             /\ w.array = a
                                             /\ w.index = i}
            IN  IF stores = {} THEN arrays[a][i]
                ELSE (CHOOSE w \in stores : TRUE).value]]

\* the accesses that fall outside their array
OutOfRange(arrays, performed) ==
    {w \in performed : w.index \notin DOMAIN arrays[w.array]}

\* the primitive has made the accesses and ends with the outcome
Perform(g, performed, outcome) ==
    /\ accesses' = performed
    /\ memory' = Stored(memory, performed)
    /\ Return(g, [l \in active_lanes[g] |-> outcome])
    /\ UNCHANGED << kernel, call, active_lanes, lane_value,
                    f_evaluated_by, counter, atomic_adds >>

\* detail::naive_copy
naive_copy(arrays, length, undefined) ==
    LET by_lane(l) ==
            UNION {CopyOf(arrays, l, k, "target", "source",
                          positions_at_warp_stride(l, length)[k], undefined) :
                      k \in 1 .. Len(positions_at_warp_stride(l, length))}
    IN  UNION {by_lane(l) : l \in Lanes}

\* primitives::detail::elements_per_full_warp_write<T>::value
elements_per_full_warp_write(size) ==
    IF size >= sizeof_unsigned THEN 1 ELSE sizeof_unsigned \div size

\* copy_n: truncated_length
truncated_length(length, size, MayHaveSlack) ==
    IF MayHaveSlack
    THEN clear_lower_k_bits(length,
             log2_constexpr(elements_per_full_warp_write(size)))
    ELSE length

\* copy_n: the loop of packed writes, each of elements_per_full_warp_write
\* consecutive elements
packed_copy(arrays, length, size, MayHaveSlack, undefined) ==
    LET per_write == elements_per_full_warp_write(size)
        positions(l) ==
            positions_at_stride(l * per_write,
                truncated_length(length, size, MayHaveSlack),
                warp_size * per_write)
        by_lane(l) ==
            UNION {CopyOf(arrays, l, k, "target", "source",
                          positions(l)[k] + e, undefined) :
                      k \in 1 .. Len(positions(l)), e \in 0 .. per_write - 1}
    IN  UNION {by_lane(l) : l \in Lanes}

\* copy_n: the writes after the loop
slack_copy(arrays, length, size, undefined) ==
    LET num_slack_elements_of_copy ==
            length - truncated_length(length, size, TRUE)
        by_lane(l) ==
            IF elements_per_full_warp_write(size) = 2
            THEN CopyOf(arrays, l, 0, "target", "source",
                        truncated_length(length, size, TRUE), undefined)
            ELSE IF l < num_slack_elements_of_copy
                 THEN CopyOf(arrays, l, 0, "target", "source",
                             truncated_length(length, size, TRUE) + l,
                             undefined)
                 ELSE {}
    IN  UNION {by_lane(l) : l \in Lanes}

\* copy_n for a trivially copyable T of the given size: the accesses made
copy_n(arrays, length, size, MayHaveSlack, undefined) ==
    IF \/ elements_per_full_warp_write(size) = 1
       \/ size \notin {1, 2, 4, 8}
    THEN naive_copy(arrays, length, undefined)
    ELSE packed_copy(arrays, length, size, MayHaveSlack, undefined)
            \cup (IF MayHaveSlack
                  THEN slack_copy(arrays, length, size, undefined)
                  ELSE {})

InitCopyN ==
    \E size \in ElementSizes, length \in 0 .. MaxCopyLength,
       MayHaveSlack \in BOOLEAN :
        \E source \in ElementArrays(length) :
            /\ MayHaveSlack \/ length % elements_per_full_warp_write(size) = 0
            /\ StartCallOnMemory(
                   [primitive |-> "copy_n", sizeof_T |-> size,
                    length |-> length, MayHaveSlack |-> MayHaveSlack],
                   [target |-> UnwrittenArray(length), source |-> source])

CopyN(g) ==
    /\ call.primitive = "copy_n"
    /\ ~Returned(g)
    /\ \E undefined \in UndefinedValues :
         LET performed == copy_n(memory, call.length, call.sizeof_T,
                                 call.MayHaveSlack, undefined)
         IN  \E outcome \in Outcomes(OutOfRange(memory, performed) # {}) :
                 Perform(g, performed, outcome)

CopyNStaysBelowLength ==
    \A g \in CallingWarps :
        (call.primitive = "copy_n" /\ Returned(g)) =>
            \A a \in accesses :
                ((a.kind = "write" /\ a.array = "target")
                    \/ (a.kind = "read" /\ a.array = "source"))
                        => a.index < call.length

MaxStrides == 2

MaxBulkLength == MaxStrides * warp_size + 1

\* the number of values of the target type T of cast_and_copy: fewer than
\* the source type U has, or as many
NumbersOfTargetValues == {MaxValue, MaxValue + 1}

\* the conversion of an unsigned value to an unsigned type with that many
\* values
cast(value, number_of_values) == value % number_of_values

\* cast_and_copy: the accesses made
cast_and_copy(arrays, length, number_of_values) ==
    LET pos(l, k) == positions_at_warp_stride(l, length)[k]
        by_lane(l) ==
            UNION {{ReadOf(arrays, l, k, "source", pos(l, k), 0),
                    WriteOf(l, k, "target", pos(l, k),
                            cast(arrays.source[pos(l, k)], number_of_values))} :
                      k \in 1 .. Len(positions_at_warp_stride(l, length))}
    IN  UNION {by_lane(l) : l \in Lanes}

\* fill_n: the accesses made
fill_n(count, value) ==
    LET by_lane(l) ==
            {WriteOf(l, k, "start", positions_at_warp_stride(l, count)[k], value) :
                k \in 1 .. Len(positions_at_warp_stride(l, count))}
    IN  UNION {by_lane(l) : l \in Lanes}

\* lookup: the accesses made
lookup(arrays, num_indices) ==
    LET pos(l, k) == positions_at_warp_stride(l, num_indices)[k]
        by_lane(l) ==
            UNION {{ReadOf(arrays, l, k, "indices", pos(l, k), 0),
                    ReadOf(arrays, l, k, "lookup_table",
                           arrays.indices[pos(l, k)], 0),
                    WriteOf(l, k, "target", pos(l, k),
                            arrays.lookup_table[arrays.indices[pos(l, k)]])} :
                      k \in 1 .. Len(positions_at_warp_stride(l, num_indices))}
    IN  UNION {by_lane(l) : l \in Lanes}

\* elementwise_accumulate of arrays: the accesses made
elementwise_accumulate(arrays, length, op) ==
    LET pos(l, k) == positions_at_warp_stride(l, length)[k]
        by_lane(l) ==
            UNION {{ReadOf(arrays, l, k, "source", pos(l, k), 0),
                    ReadOf(arrays, l, k, "destination", pos(l, k), 0),
                    WriteOf(l, k, "destination", pos(l, k),
                            ApplyOp(op, arrays.destination[pos(l, k)],
                                    arrays.source[pos(l, k)]))} :
                      k \in 1 .. Len(positions_at_warp_stride(l, length))}
    IN  UNION {by_lane(l) : l \in Lanes}

\* the lookup tables: they map an index to the index that many places on
LookupTables ==
    {[j \in Elements |-> (j + shift) % (MaxValue + 1)] : shift \in 1 .. MaxValue}

InitCastAndCopy ==
    \E length \in 0 .. MaxBulkLength, T \in NumbersOfTargetValues :
        \E source \in ElementArrays(length) :
            StartCallOnMemory(
                [primitive |-> "cast_and_copy", length |-> length,
                 number_of_values_of_T |-> T],
                [target |-> UnwrittenArray(length), source |-> source])

CastAndCopy(g) ==
    /\ call.primitive = "cast_and_copy"
    /\ ~Returned(g)
    /\ Perform(g, cast_and_copy(memory, call.length,
                                call.number_of_values_of_T), "void")

InitFillN ==
    \E count \in 0 .. MaxBulkLength, value \in Elements :
        StartCallOnMemory(
            [primitive |-> "fill_n", length |-> count, value |-> value],
            [start |-> UnwrittenArray(count)])

FillN(g) ==
    /\ call.primitive = "fill_n"
    /\ ~Returned(g)
    /\ Perform(g, fill_n(call.length, call.value), "void")

InitLookup ==
    \E num_indices \in 0 .. MaxBulkLength, lookup_table \in LookupTables :
        \E indices \in ElementArrays(num_indices) :
            StartCallOnMemory(
                [primitive |-> "lookup", length |-> num_indices],
                [target |-> UnwrittenArray(num_indices),
                 lookup_table |-> lookup_table, indices |-> indices])

Lookup(g) ==
    /\ call.primitive = "lookup"
    /\ ~Returned(g)
    /\ Perform(g, lookup(memory, call.length), "void")

InitElementwiseAccumulate ==
    \E length \in 0 .. MaxBulkLength, op \in ReductionOps :
        \E source \in ElementArrays(length),
           destination \in ElementArrays(length) :
            StartCallOnMemory(
                [primitive |-> "elementwise_accumulate", length |-> length,
                 AccumulatingOperation |-> op,
                 destination_before |-> destination],
                [destination |-> destination, source |-> source])

ElementwiseAccumulate(g) ==
    /\ call.primitive = "elementwise_accumulate"
    /\ ~Returned(g)
    /\ Perform(g, elementwise_accumulate(memory, call.length,
                                         call.AccumulatingOperation), "void")

StridedTransforms ==
    {"cast_and_copy", "fill_n", "lookup", "elementwise_accumulate"}

\* the arrays a transform goes through by position, and the kinds of access
\* it makes to them
ProcessedArrays ==
    CASE call.primitive = "cast_and_copy" ->
             {<<"source", "read">>, <<"target", "write">>}
      [] call.primitive = "fill_n" -> {<<"start", "write">>}
      [] call.primitive = "lookup" ->
             {<<"indices", "read">>, <<"target", "write">>}
      [] call.primitive = "elementwise_accumulate" ->
             {<<"source", "read">>, <<"destination", "read">>,
              <<"destination", "write">>}

\* the element of its result array a transform is to leave at index i
ExpectedElement(i) ==
    CASE call.primitive = "cast_and_copy" ->
             cast(memory.source[i], call.number_of_values_of_T)
      [] call.primitive = "fill_n" -> call.value
      [] call.primitive = "lookup" -> memory.lookup_table[memory.indices[i]]
      [] call.primitive = "elementwise_accumulate" ->
             ApplyOp(call.AccumulatingOperation, call.destination_before[i],
                     memory.source[i])

ResultArray ==
    CASE call.primitive = "cast_and_copy" -> memory.target
      [] call.primitive = "fill_n" -> memory.start
      [] call.primitive = "lookup" -> memory.target
      [] call.primitive = "elementwise_accumulate" -> memory.destination

(***************************************************************************)
(* C27. cast_and_copy, fill_n, lookup and elementwise_accumulate over      *)
(* length elements: every index below length is processed exactly once,    *)
(* by the lane index mod warp_size, the lanes addressing warp_size         *)
(* consecutive indices in each step of the stride; the result array holds  *)
(* at each index the converted source element, the fill value, the table   *)
(* entry of the index element, or the old element accumulated with the     *)
(* source element; and no element at an index of length or more is read    *)
(* or written.                                                             *)
(***************************************************************************)
StridedTransformsProcessEachIndexOnce ==
    \A g \in CallingWarps :
        (call.primitive \in StridedTransforms /\ Returned(g)) =>
            /\ \A i \in 0 .. call.length - 1, array \in ProcessedArrays :
                 LET made == {a \in accesses : /\ a.array = array[1]
                                               /\ a.kind = array[2]
                                               /\ a.index = i}
                 IN  /\ Cardinality(made) = 1
                     /\ \A a \in made : a.lane = i % warp_size
            /\ \A a \in accesses :
                 a.array # "lookup_table" =>
                    /\ a.index = (a.step - 1) * warp_size + a.lane
                    /\ a.index < call.length
            /\ \A i \in 0 .. call.length - 1 :
                 ResultArray[i] = ExpectedElement(i)

\* cast_and_copy to a narrower type has returned from a call over two
\* strides and one more element, and the conversion has changed an element
StridedTransformsWitness ==
    \E g \in CallingWarps :
        /\ call.primitive = "cast_and_copy"
        /\ Returned(g)
        /\ call.length = MaxBulkLength
        /\ Cardinality({a.step : a \in accesses}) = MaxStrides + 1
        /\ call.number_of_values_of_T = MaxValue
        /\ memory.target # memory.source

InitBulk ==
    \/ InitComputePredicateAtWarpStride
    \/ InitCopyN
    \/ InitCastAndCopy
    \/ InitFillN
    \/ InitLookup
    \/ InitElementwiseAccumulate

NextBulk ==
    \E g \in CallingWarps :
        \/ ComputePredicateAtWarpStride(g)
        \/ CopyN(g)
        \/ CastAndCopy(g)
        \/ FillN(g)
        \/ Lookup(g)
        \/ ElementwiseAccumulate(g)

SpecBulk == InitBulk /\ [][NextBulk]_vars

\* none_satisfy
none_satisfy(predicate, callers) ==
    all_satisfy([l \in DOMAIN predicate |-> ~predicate[l]], callers)

\* operator ~ on a word with a bit per lane
bitwise_not(word) == Lanes \ word

\* all_lanes_agree_on
all_lanes_agree_on(predicate, callers) ==
    LET ballot_results == warp_ballot(predicate, callers)
    IN  bool_to_unsigned(\/ ballot_results = {}
                         \/ bitwise_not(ballot_results) = {})

InitAllLanesAgreeOn ==
    \E active \in NonEmptyMasks, holds \in [Lanes -> BOOLEAN] :
        StartCall([primitive |-> "all_lanes_agree_on"],
                  <<active>>, <<holds>>, 0)

AllLanesAgreeOn(g) ==
    /\ call.primitive = "all_lanes_agree_on"
    /\ ~Returned(g)
    /\ Return(g, [l \in active_lanes[g] |->
                     all_lanes_agree_on(lane_value[g], active_lanes[g])])
    /\ UNCHANGED << kernel, global_memory, call, active_lanes, lane_value,
                    f_evaluated_by, counter, atomic_adds >>

(***************************************************************************)
(* C26. all_lanes_agree_on(p) is true exactly when all_satisfy(p) or       *)
(* none_satisfy(p) is, that is, when the lanes executing it all hold the   *)
(* same truth value of p; for every predicate and every set of active      *)
(* lanes.                                                                  *)
(***************************************************************************)
AgreeIffAllOrNoneSatisfy ==
    \A g \in CallingWarps :
        (call.primitive = "all_lanes_agree_on" /\ Returned(g)) =>
            \A l \in active_lanes[g] :
                (lane_result[g][l] # 0)
                    <=> \/ all_satisfy(lane_value[g], active_lanes[g])
                        \/ none_satisfy(lane_value[g], active_lanes[g])

(***************************************************************************)
(* first_lane_satisfying called on its own, and the decompression of       *)
(* arrays whose elements are smaller than a thread write, which calls it   *)
(* before the slack writes.                                                *)
(***************************************************************************)
IntPredicates == 0 .. MaxValue

InitFirstLaneSatisfying ==
    \E active \in NonEmptyMasks, predicate \in [Lanes -> IntPredicates] :
        StartCall([primitive |-> "first_lane_satisfying"],
                  <<active>>, <<predicate>>, 0)

FirstLaneSatisfying(g) ==
    /\ call.primitive = "first_lane_satisfying"
    /\ ~Returned(g)
    /\ Return(g, [l \in active_lanes[g] |->
                     first_lane_satisfying(
                         [m \in active_lanes[g] |-> lane_value[g][m] # 0],
                         active_lanes[g])])
    /\ UNCHANGED << kernel, global_memory, call, active_lanes, lane_value,
                    f_evaluated_by, counter, atomic_adds >>

InitPackedLaunch ==
    \E length \in 1 .. MaxLength, period \in 1 .. MaxLength :
      /\ div_rounding_up(length, period) <= MaxSegments
      /\ \E size \in {s \in UncompressedSizes : s < sizeof_unsigned},
            relative \in BOOLEAN :
           Launch(length, period, size, relative)

InitFirstLane == InitFirstLaneSatisfying \/ InitPackedLaunch

NextFirstLane ==
    \/ \E g \in CallingWarps : FirstLaneSatisfying(g)
    \/ \E gw \in Warps : MainRound(gw[1], gw[2])
    \/ \E gw \in Warps : HandleSlack(gw[1], gw[2])

SpecFirstLane == InitFirstLane /\ [][NextFirstLane]_vars

(***************************************************************************)
(* C38  first_lane_satisfying(predicate) returns the lowest index of a     *)
(* lane whose predicate is non-zero, and warp_size when the predicate of   *)
(* no lane is; where the decompression calls it before the slack writes,   *)
(* it is the one lane of the warp that wrote the last full thread write.   *)
(***************************************************************************)
LanesWithNonZeroPredicate(g) ==
    {l \in active_lanes[g] : lane_value[g][l] # 0}

FirstLaneSatisfyingReturnsLowest ==
    \A g \in CallingWarps :
        (call.primitive = "first_lane_satisfying" /\ Returned(g)) =>
            \A l \in active_lanes[g] :
                IF LanesWithNonZeroPredicate(g) = {}
                THEN lane_result[g][l] = warp_size
                ELSE /\ lane_result[g][l] \in LanesWithNonZeroPredicate(g)
                     /\ \A m \in LanesWithNonZeroPredicate(g) :
                            lane_result[g][l] <= m

\* the warp is past the loop and calls, or has called, first_lane_satisfying
CallsFirstLaneSatisfying(g, w) ==
    /\ LoopLanes(g, w) = {}
    /\ HasSlack(g)
    /\ UpdateLanes(g, w) # {}

WroteLastFullThreadWrite(g, w, lane) ==
    \E r \in writes :
        /\ r.block = g
        /\ r.thread = thread_index_in_block(w, lane)
        /\ r.packed
        /\ r.from = truncated_decompressed_length[g] - elements_per_thread_write

LaneOfLastFullThreadWriteFound ==
    \A gw \in Warps :
        CallsFirstLaneSatisfying(gw[1], gw[2]) =>
            \A l \in LanesOf(gw[2]) :
                (l = lane_which_wrote_the_last_element_so_far(gw[1], gw[2]))
                    <=> WroteLastFullThreadWrite(gw[1], gw[2], l)

FirstLaneSatisfyingFindsLowestLane ==
    FirstLaneSatisfyingReturnsLowest /\ LaneOfLastFullThreadWriteFound

\* a warp has made its slack writes after finding that a lane other than
\* its first wrote the last full thread write
FirstLaneSatisfyingWitness ==
    \E gw \in Warps :
        /\ pc[gw] = "done"
        /\ CallsFirstLaneSatisfying(gw[1], gw[2])
        /\ lane_which_wrote_the_last_element_so_far(gw[1], gw[2]) > 0
        /\ \E r \in writes :
              /\ r.block = gw[1]
              /\ ~r.packed
              /\ WarpOfThread(r.thread) = gw[2]

(***************************************************************************)
(* multisearch, loop iteration by loop iteration, in a warp twice as wide, *)
(* so that lanes start with a range of cutoff_to_linear_search lanes or    *)
(* more.  lane_value holds the locals of each lane, counter the number of  *)
(* iterations made of the for loop, accesses the shuffles executed.        *)
(***************************************************************************)
search_warp_size == 2 * warp_size

SearchLanes == 0 .. (search_warp_size - 1)

\* the hay straws of the wide warp, in order: increasing sequences of the
\* values 0 .. search_warp_size, each of which leaves one value out
WideHaystacks ==
    {[l \in SearchLanes |-> IF l < left_out THEN l ELSE l + 1] :
        left_out \in {0, warp_size, search_warp_size}}

\* needles at the lowest and at the highest value of a straw: the lanes
\* below some lane hold one needle, the lanes from it on hold another
WideNeedles ==
    {[l \in SearchLanes |-> IF l < from THEN below ELSE above] :
        from \in SearchLanes,
        below \in {0, search_warp_size}, above \in {0, search_warp_size}}

\* what an undefined read of the wide warp may give
UndefinedWideStraws == {0, search_warp_size + 1}

\* bounds of each lane before the loops of multisearch
initial_bounds_of_search(lane_needle, lane_hay_straw) ==
    [l \in SearchLanes |->
        IF lane_needle[l] <= lane_hay_straw[l]
        THEN [lower |-> 0, upper |-> l]
        ELSE [lower |-> l + 1, upper |-> search_warp_size]]

\* the lanes whose while loop goes on
InBinarySearch(bounds) ==
    {l \in SearchLanes :
        bounds[l].upper - bounds[l].lower >= cutoff_to_linear_search}

\* mutant: the upper end of the range is taken for its middle
mid_of_bounds_mutant(b) == b.upper

mid_of_bounds(b) == (b.lower + b.upper) \div 2

\* __shfl(lane_needle, source) by the lanes in `callers'
ShuffleOfNeedle(lane_needle, source, callers, l, undefined) ==
    IF source \in callers THEN lane_needle[source] ELSE undefined[l]

\* one iteration of the while loop, by the lanes still in it
binary_search_iteration(lane_needle, bounds, undefined) ==
    LET searching == InBinarySearch(bounds)
        mid(l) == mid_of_bounds(bounds[l])
        mid_lane_hay_straw(l) ==
            ShuffleOfNeedle(lane_needle, mid(l), searching, l, undefined)
    IN  [l \in SearchLanes |->
            IF l \notin searching THEN bounds[l]
            ELSE IF lane_needle[l] <= mid_lane_hay_straw(l)
                 THEN [lower |-> mid(l) + 1, upper |-> bounds[l].upper]
                 ELSE [lower |-> bounds[l].lower, upper |-> mid(l)]]

\* the callers whose __shfl reads a lane that is not among them
ReadingUndefinedNeedle(callers, source) ==
    {l \in callers : source[l] \notin callers}

\* the lanes whose for loop goes on
InLinearSearch(bounds, result, iteration) ==
    {l \in SearchLanes :
        /\ bounds[l].lower + iteration < bounds[l].upper
        /\ result[l].lane_index >= search_warp_size}

\* one iteration of the for loop, by the lanes still in it
linear_search_iteration(lane_needle, bounds, result, iteration, undefined) ==
    LET looping == InLinearSearch(bounds, result, iteration)
        lane(l) == bounds[l].lower + iteration
        hay_straw(l) ==
            ShuffleOfNeedle(lane_needle, lane(l), looping, l, undefined)
    IN  [l \in SearchLanes |->
            IF l \in looping /\ hay_straw(l) > lane_needle[l]
            THEN [lane_index |-> lane(l), value |-> hay_straw(l)]
            ELSE result[l]]

LocalsOfSearch(g, l) == lane_value[g][l]

BoundsOfSearch(g) == [l \in SearchLanes |-> LocalsOfSearch(g, l).bounds]

ResultOfSearch(g) == [l \in SearchLanes |-> LocalsOfSearch(g, l).result]

NeedleOfSearch(g) == [l \in SearchLanes |-> LocalsOfSearch(g, l).lane_needle]

InitSearchIntervals ==
    \E hay \in WideHaystacks, needle \in WideNeedles :
        StartCall([primitive |-> "multisearch", loops |-> "iterated"],
            <<SearchLanes>>,
            <<[l \in SearchLanes |->
                  [lane_needle |-> needle[l],
                   lane_hay_straw |-> hay[l],
                   bounds |-> initial_bounds_of_search(needle, hay)[l],
                   result |-> [lane_index |-> search_warp_size, value |-> 0],
                   while_iterations |-> 0]]>>,
            0)

IteratedSearch(g) ==
    /\ call.primitive = "multisearch"
    /\ "loops" \in DOMAIN call
    /\ ~Returned(g)

\* an iteration of the while loop by the lanes that are in it
MultisearchWhileIteration(g) ==
    /\ IteratedSearch(g)
    /\ InBinarySearch(BoundsOfSearch(g)) # {}
    /\ \E undefined \in
             [ReadingUndefinedNeedle(InBinarySearch(BoundsOfSearch(g)),
                  [l \in SearchLanes |->
                      mid_of_bounds(LocalsOfSearch(g, l).bounds)])
                 -> UndefinedWideStraws] :
         lane_value' = [lane_value EXCEPT ![g] =
             [l \in SearchLanes |->
                 IF l \in InBinarySearch(BoundsOfSearch(g))
                 THEN [LocalsOfSearch(g, l) EXCEPT
                          !.bounds = binary_search_iteration(NeedleOfSearch(g),
                                         BoundsOfSearch(g), undefined)[l],
                          !.while_iterations = @ + 1]
                 ELSE LocalsOfSearch(g, l)]]
    /\ accesses' = accesses \cup
           {[lane |-> l,
             step |-> <<"while", LocalsOfSearch(g, l).while_iterations>>,
             array |-> "lane_needle",
             index |-> mid_of_bounds(LocalsOfSearch(g, l).bounds),
             kind |-> "shfl"] : l \in InBinarySearch(BoundsOfSearch(g))}
    /\ UNCHANGED << kernel, memory, call, active_lanes, lane_result,
                    f_evaluated_by, counter, atomic_adds >>

\* an iteration of the for loop by the lanes that are in it, once no lane
\* is left in the while loop
MultisearchForIteration(g) ==
    /\ IteratedSearch(g)
    /\ InBinarySearch(BoundsOfSearch(g)) = {}
    /\ InLinearSearch(BoundsOfSearch(g), ResultOfSearch(g), counter) # {}
    /\ \E undefined \in
             [ReadingUndefinedNeedle(
                  InLinearSearch(BoundsOfSearch(g), ResultOfSearch(g), counter),
                  [l \in SearchLanes |->
                      LocalsOfSearch(g, l).bounds.lower + counter])
                 -> UndefinedWideStraws] :
         lane_value' = [lane_value EXCEPT ![g] =
             [l \in SearchLanes |->
                 [LocalsOfSearch(g, l) EXCEPT
                     !.result = linear_search_iteration(NeedleOfSearch(g),
                                    BoundsOfSearch(g), ResultOfSearch(g),
                                    counter, undefined)[l]]]]
    /\ accesses' = accesses \cup
           {[lane |-> l, step |-> <<"for", counter>>,
             array |-> "lane_needle",
             index |-> LocalsOfSearch(g, l).bounds.lower + counter,
             kind |-> "shfl"] :
               l \in InLinearSearch(BoundsOfSearch(g), ResultOfSearch(g),
                                    counter)}
    /\ counter' = counter + 1
    /\ UNCHANGED << kernel, memory, call, active_lanes, lane_result,
                    f_evaluated_by, atomic_adds >>

\* the lanes return their results, once no lane is left in a loop
MultisearchReturn(g) ==
    /\ IteratedSearch(g)
    /\ InBinarySearch(BoundsOfSearch(g)) = {}
    /\ InLinearSearch(BoundsOfSearch(g), ResultOfSearch(g), counter) = {}
    /\ Return(g, ResultOfSearch(g))
    /\ UNCHANGED << kernel, global_memory, call, active_lanes, lane_value,
                    f_evaluated_by, counter, atomic_adds >>

NextSearchIntervals ==
    \E g \in CallingWarps :
        \/ MultisearchWhileIteration(g)
        \/ MultisearchForIteration(g)
        \/ MultisearchReturn(g)

SpecSearchIntervals == InitSearchIntervals /\ [][NextSearchIntervals]_vars

(***************************************************************************)
(* C39  Search interval of multisearch: in every lane the while loop ends  *)
(* after at most ceil(log2(warp_size)) iterations, 0 <= bounds.lower <=    *)
(* bounds.upper <= warp_size holds before and after every iteration, and   *)
(* every lane index passed to a shuffle lies in [0, warp_size).            *)
(***************************************************************************)
RECURSIVE CeilingOfLog2(_)
CeilingOfLog2(n) == IF n <= 1 THEN 0 ELSE 1 + CeilingOfLog2((n + 1) \div 2)

SearchIntervalStaysInWarp ==
    \A g \in CallingWarps :
        (call.primitive = "multisearch" /\ "loops" \in DOMAIN call) =>
            /\ \A l \in SearchLanes :
                   /\ LocalsOfSearch(g, l).while_iterations
                          <= CeilingOfLog2(search_warp_size)
                   /\ 0 <= LocalsOfSearch(g, l).bounds.lower
                   /\ LocalsOfSearch(g, l).bounds.lower
                          <= LocalsOfSearch(g, l).bounds.upper
                   /\ LocalsOfSearch(g, l).bounds.upper <= search_warp_size
            /\ \A a \in accesses :
                   0 <= a.index /\ a.index < search_warp_size

\* the lanes have returned after an iteration of the while loop by some
\* lanes, taking the lower and the upper half, and iterations of the for
\* loop
SearchIntervalWitness ==
    \E g \in CallingWarps :
        /\ call.primitive = "multisearch" /\ "loops" \in DOMAIN call
        /\ Returned(g)
        /\ \E l, m \in SearchLanes :
              /\ LocalsOfSearch(g, l).while_iterations = 1
              /\ LocalsOfSearch(g, l).bounds.lower > l + 1
              /\ LocalsOfSearch(g, m).while_iterations = 1
              /\ LocalsOfSearch(g, m).bounds.upper < m
        /\ \E a \in accesses : a.step[1] = "for" /\ a.step[2] > 0

InitWarp ==
    \/ InitReduce
    \/ InitScan
    \/ InitSelectLeaderLane
    \/ InitAmLeaderLane
    \/ InitHaveASingleLaneCompute
    \/ InitHaveASingleActiveLaneCompute
    \/ InitLaneIndexAmongActiveLanes
    \/ InitActiveLanesIncrement
    \/ InitAllLanesAgreeOn

NextWarp ==
    \E g \in CallingWarps :
        \/ Reduce(g)
        \/ Scan(g)
        \/ SelectLeaderLane(g)
        \/ AmLeaderLane(g)
        \/ HaveASingleLaneCompute(g)
        \/ HaveASingleActiveLaneCompute(g)
        \/ LaneIndexAmongActiveLanes(g)
        \/ ActiveLanesIncrement(g)
        \/ AllLanesAgreeOn(g)

SpecWarp == InitWarp /\ [][NextWarp]_vars

====
